---- MODULE Spec2Model ----
(***************************************************************************)
(* A model of the strategy-evaluation pipeline: the fingerprint of an      *)
(* indicator request (cache.ts), the discovery scheduler (schedulerService *)
(* in technicalStrategySource.ts), the fetcher/publisher                   *)
(* (technicalIndicators.ts, redisStream.ts), the evaluation engine         *)
(* (evaluator, in userRoutes.ts) and the two stream consumers.             *)
(*                                                                         *)
(* Each component has its own specification over its own variables; the    *)
(* variables of the other components are pinned to their initial values.   *)
(***************************************************************************)
EXTENDS Integers, Sequences, FiniteSets, TLC

VARIABLES
    \* generateCacheKey applied to two requests
    req1, req2, key1, key2, pcKey,
    \* discovery scheduler: the condition rows linked to a block of an active
    \* strategy, the scheduledJobs map, the cron tasks, the discovery ticks
    \* whose scan is pending, and the map as it was before the last tick
    activeConds, scheduledJobs, taskState, nextTask, pendingScans, tickCount,
    prevJobs, lastScanKeys, lastOp,
    \* fetcher: the freshness cache, the clock, the indicator-updates stream,
    \* the provider calls made, and the last call of getTechnicalIndicator
    cache, now, clockSteps, indStream, providerCalls, fetchCalls, lastCall,
    \* evaluation: the strategies that are active, the action-required
    \* stream, the cycles run and the last cycle
    activeStrategies, actStream, evalCycles, lastEval,
    \* consumers: which stream and group, the stream, the group's
    \* last-delivered id and pending entries, the instances, and what
    \* happened to each entry
    logKind, logStream, lastDelivered, pending, consumers,
    deliveredTo, deliveryCount, processedBy, processCount, acked, errLogged,
    lastHandled,
    \* strategy API: the Strategy, StrategyBlock, Condition and Action tables
    \* the ids each table has handed out, and the last request served
    strategyTable, blockTable, conditionTable, actionTable, usedIds, lastRequest,
    \* evaluateSingleCondition applied to one set of values, and what it
    \* returned for each operator
    cmpIn, cmpOut,
    \* the TTL of getTechnicalIndicator for two intervals
    ttlIn, ttlOut,
    \* the cache on its own: the last write under each key, the last getCachedIndicatorEntry and the writes made
    puts, lastGet, cacheOps,
    \* the matching of one Condition row against one indicator update
    matchIn, matchOut,
    \* repeated evaluation cycles over a crossover Condition: the cycles run and the writes made to its cached series
    crossLog, crossWrites,
    \* the last evaluation cycle over Conditions that target one another
    chainOut,
    \* the shared Redis client: its connection, the calls of initRedis, and the discovery task startScheduler registers
    clientState, initCalls, discoveryTask,
    \* discovery ticks against Condition rows that differ in dataSource
    srcActive, srcJobs, srcNext, srcTicks, srcScanned,
    \* the last evaluation cycle on record with the fingerprint its event carried
    trigOut,
    \* discovery ticks that may overlap: rows linked to an active strategy, the task map, the tasks, scans awaited, and per tick what its scan returned and how it ended
    tkActive, tkJobs, tkTasks, tkNext, tkPending, tkCount, tkStarted, tkApplied, tkFailed, tkStopped

keyVars == <<req1, req2, key1, key2, pcKey>>
schedVars == <<activeConds, scheduledJobs, taskState, nextTask, pendingScans,
               tickCount, prevJobs, lastScanKeys, lastOp>>

fetchVars == <<cache, now, clockSteps, indStream, providerCalls, fetchCalls, lastCall>>

\* The fetcher's variables the Evaluation Engine does not touch.
fetchRest == <<now, clockSteps, indStream, providerCalls, fetchCalls, lastCall>>
evalVars == <<activeStrategies, actStream, evalCycles, lastEval>>

logVars == <<logKind, logStream, lastDelivered, pending, consumers,
             deliveredTo, deliveryCount, processedBy, processCount, acked,
             errLogged, lastHandled>>

crudVars == <<strategyTable, blockTable, conditionTable, actionTable, usedIds, lastRequest>>

cmpVars == <<cmpIn, cmpOut>>

ttlVars == <<ttlIn, ttlOut>>

tripVars == <<puts, lastGet, cacheOps>>

matchVars == <<matchIn, matchOut>>

crossVars == <<crossLog, crossWrites>>

chainVars == <<chainOut>>

initVars == <<clientState, initCalls, discoveryTask>>

srcVars == <<srcActive, srcJobs, srcNext, srcTicks, srcScanned>>

trigVars == <<trigOut>>

tkVars == <<tkActive, tkJobs, tkTasks, tkNext, tkPending, tkCount, tkStarted, tkApplied, tkFailed, tkStopped>>

vars == <<keyVars, schedVars, fetchVars, evalVars, logVars, crudVars, cmpVars, ttlVars, tripVars, matchVars, crossVars, chainVars, initVars, srcVars, trigVars, tkVars>>

(***************************************************************************)
(* Nullable values: null / undefined is the empty tuple, a present value x *)
(* is <<x>>.                                                               *)
(***************************************************************************)
None == <<>>
Some(x) == <<x>>
IsSome(o) == o # <<>>
Get(o) == o[1]

(***************************************************************************)
(* JavaScript values that reach JSON.stringify.  An object is the sequence *)
(* of its own (key, value) pairs in insertion order, which is the order    *)
(* Object.keys and JSON.stringify visit them in (no key of the model is an *)
(* integer-like string, which JavaScript would move to the front).         *)
(***************************************************************************)
JNull == [t |-> "null", n |-> 0, s |-> "", o |-> <<>>]
JNum(n) == [t |-> "num", n |-> n, s |-> "", o |-> <<>>]
JStr(s) == [t |-> "str", n |-> 0, s |-> s, o |-> <<>>]
JObj(pairs) == [t |-> "obj", n |-> 0, s |-> "", o |-> pairs]
Pair(k, v) == [k |-> k, v |-> v]

KeysOf(pairs) == {pairs[i].k : i \in DOMAIN pairs}
HasKey(pairs, k) == k \in KeysOf(pairs)
Lookup(pairs, k) == pairs[CHOOSE i \in DOMAIN pairs : pairs[i].k = k].v

\* Structural (deep) equality of two values: same keys with structurally
\* equal values, whatever the insertion order.
RECURSIVE StructEq(_, _)
StructEq(a, b) ==
    IF a.t # "obj" \/ b.t # "obj" THEN a = b
    ELSE /\ KeysOf(a.o) = KeysOf(b.o)
         /\ \A k \in KeysOf(a.o) : StructEq(Lookup(a.o, k), Lookup(b.o, k))

(***************************************************************************)
(* A string that carries JSON is kept as its sequence of lexical tokens,   *)
(* so that JSON.parse can be modelled as a parser; Flatten gives the       *)
(* string itself.                                                          *)
(***************************************************************************)
Tok(tt, tx, n) == [tt |-> tt, tx |-> tx, n |-> n]
TLBrace == Tok("{", "", 0)
TRBrace == Tok("}", "", 0)
TColon == Tok(":", "", 0)
TComma == Tok(",", "", 0)
TNull == Tok("null", "", 0)
TStr(s) == Tok("str", s, 0)
TNum(n) == Tok("num", "", n)

RECURSIVE JSONstringify(_)
RECURSIVE StringifyPairs(_, _)
\* JSON.stringify(value): members in insertion order, no whitespace.
JSONstringify(v) ==
    CASE v.t = "null" -> <<TNull>>
      [] v.t = "num" -> <<TNum(v.n)>>
      [] v.t = "str" -> <<TStr(v.s)>>
      [] v.t = "obj" -> <<TLBrace>> \o StringifyPairs(v.o, 1) \o <<TRBrace>>

StringifyPairs(pairs, i) ==
    IF i > Len(pairs) THEN <<>>
    ELSE (IF i > 1 THEN <<TComma>> ELSE <<>>)
         \o <<TStr(pairs[i].k), TColon>> \o JSONstringify(pairs[i].v)
         \o StringifyPairs(pairs, i + 1)

TokText(tk) ==
    CASE tk.tt = "str" -> "\"" \o tk.tx \o "\""
      [] tk.tt = "raw" -> tk.tx
      [] tk.tt = "num" -> ToString(tk.n)
      [] OTHER -> tk.tt

RECURSIVE Flatten(_)
Flatten(toks) ==
    IF toks = <<>> THEN "" ELSE TokText(Head(toks)) \o Flatten(Tail(toks))

(***************************************************************************)
(* JSON.parse as a recursive-descent parser over the tokens.  A parse      *)
(* result is [ok, v, rest]; ok = FALSE stands for the SyntaxError that     *)
(* JSON.parse throws.  A repeated key keeps its first position and its     *)
(* last value, as in JavaScript.                                           *)
(***************************************************************************)
ParseFail == [ok |-> FALSE, v |-> JNull, rest |-> <<>>]
ParseOk(v, rest) == [ok |-> TRUE, v |-> v, rest |-> rest]

SetKey(pairs, k, v) ==
    IF HasKey(pairs, k)
    THEN [i \in DOMAIN pairs |-> IF pairs[i].k = k THEN Pair(k, v) ELSE pairs[i]]
    ELSE Append(pairs, Pair(k, v))

RECURSIVE ParseValue(_)
RECURSIVE ParseMembers(_, _)
ParseValue(toks) ==
    IF toks = <<>> THEN ParseFail
    ELSE LET h == Head(toks)
             r == Tail(toks)
         IN  CASE h.tt = "null" -> ParseOk(JNull, r)
               [] h.tt = "num" -> ParseOk(JNum(h.n), r)
               [] h.tt = "str" -> ParseOk(JStr(h.tx), r)
               [] h.tt = "{" ->
                    IF r # <<>> /\ Head(r).tt = "}"
                    THEN ParseOk(JObj(<<>>), Tail(r))
                    ELSE ParseMembers(r, <<>>)
               [] OTHER -> ParseFail

\* members after "{" or after ",": "key" : value, then "," or "}".
ParseMembers(toks, acc) ==
    IF Len(toks) < 2 \/ toks[1].tt # "str" \/ toks[2].tt # ":" THEN ParseFail
    ELSE LET pv == ParseValue(Tail(Tail(toks)))
         IN  IF ~pv.ok \/ pv.rest = <<>> THEN ParseFail
             ELSE LET acc2 == SetKey(acc, toks[1].tx, pv.v)
                      sep == Head(pv.rest)
                  IN  CASE sep.tt = "}" -> ParseOk(JObj(acc2), Tail(pv.rest))
                        [] sep.tt = "," -> ParseMembers(Tail(pv.rest), acc2)
                        [] OTHER -> ParseFail

\* JSON.parse(text): the whole text must be one value.
JSONparse(toks) ==
    LET pv == ParseValue(toks)
    IN  IF pv.ok /\ pv.rest = <<>> THEN pv ELSE ParseFail

(***************************************************************************)
(* cache.ts: generateCacheKey                                              *)
(***************************************************************************)
\* Object.keys(keyParams).sort() of the object literal of generateCacheKey.
SortedKeys == <<"dataSource", "indicatorType", "interval", "parameters", "symbol">>

\* obj[k] of a JavaScript object: None when the member is missing
\* (undefined) or null.
Field(obj, k) ==
    IF HasKey(obj.o, k) /\ Lookup(obj.o, k).t # "null"
    THEN Some(Lookup(obj.o, k)) ELSE None

\* keyParams[key]: the field generateCacheKey copied from params.
KeyParam(params, key) == Field(params, key)

\* typeof value === 'object' ? JSON.stringify(value) : String(value)
StringValue(value) ==
    IF value.t = "obj" THEN Flatten(JSONstringify(value))
    ELSE IF value.t = "num" THEN ToString(value.n)
    ELSE value.s

RECURSIVE JoinBar(_)
JoinBar(parts) ==
    IF parts = <<>> THEN ""
    ELSE IF Len(parts) = 1 THEN parts[1]
    ELSE parts[1] \o "|" \o JoinBar(Tail(parts))

RECURSIVE KeyEntries(_, _)
\* sortedKeys.map(...).filter(part => part !== null)
KeyEntries(params, i) ==
    IF i > Len(SortedKeys) THEN <<>>
    ELSE LET key == SortedKeys[i]
             value == KeyParam(params, key)
         IN  (IF IsSome(value)
              THEN <<key \o ":" \o StringValue(Get(value))>>
              ELSE <<>>)
             \o KeyEntries(params, i + 1)

generateCacheKey(params) == "indicator:" \o JoinBar(KeyEntries(params, 1))

(***************************************************************************)
(* Requests.  A request is a JavaScript object; generateCacheKey reads its  *)
(* members indicatorType, symbol, interval, parameters and dataSource.     *)
(***************************************************************************)
MaxParams == 2

ParamKeys == <<"time_period", "series_type", "fastperiod">>
ParamValues(k) ==
    CASE k = "time_period" -> {JNum(20)}
      [] k = "series_type" -> {JStr("close"), JStr("open")}
      [] OTHER -> {JNum(12)}
ParamPairs ==
    UNION {{Pair(ParamKeys[i], v) : v \in ParamValues(ParamKeys[i])} :
           i \in 1..(IF MaxParams + 1 < Len(ParamKeys) THEN MaxParams + 1 ELSE Len(ParamKeys))}

\* Every parameters object of at most MaxParams keys, in every insertion order.
ParamObjects ==
    {p \in UNION {[1..n -> ParamPairs] : n \in 0..MaxParams} :
        \A i, j \in DOMAIN p : i # j => p[i].k # p[j].k}

\* The member k: v of an object literal, left out when v is undefined.
Member(k, o) == IF IsSome(o) THEN <<Pair(k, Get(o))>> ELSE <<>>

\* { indicatorType, symbol, interval, parameters, dataSource }
MkRequest(type, symbol, interval, params, dataSource) ==
    JObj(Member("indicatorType", type) \o Member("symbol", symbol)
         \o Member("interval", interval) \o Member("parameters", params)
         \o Member("dataSource", dataSource))

KeyRequests ==
    {MkRequest(type, Some(JStr("AAPL")), Some(JStr("daily")), params, dataSource) :
        type \in {Some(JStr("SMA")), Some(JStr("EMA")), None},
        params \in {Some(JObj(p)) : p \in ParamObjects} \cup {None},
        dataSource \in {None, Some(JNull), Some(JStr("AlphaVantage"))}}

\* Two requests are structurally equal: the same members with structurally
\* equal values, nested parameters compared by key/value pairs and not by
\* insertion order.
RequestsEqual(a, b) == StructEq(a, b)

IdleKey ==
    /\ req1 = JNull
    /\ req2 = JNull
    /\ key1 = ""
    /\ key2 = ""
    /\ pcKey = "off"

InitKey ==
    /\ req1 \in KeyRequests
    /\ req2 \in KeyRequests
    /\ key1 = ""
    /\ key2 = ""
    /\ pcKey = "start"

\* Two callers compute the fingerprint of their request.
GenerateKeys ==
    /\ pcKey = "start"
    /\ key1' = generateCacheKey(req1)
    /\ key2' = generateCacheKey(req2)
    /\ pcKey' = "done"
    /\ UNCHANGED <<req1, req2>>

(***************************************************************************)
(* Condition rows (schema.prisma, model Condition).  symbol, interval,     *)
(* dataSource, dataKey, targetValue and targetIndicatorId are nullable.    *)
(***************************************************************************)
CondRow(id, type, symbol, interval, params, dataSource, op, targetValue, targetId) ==
    [id |-> id, indicatorType |-> type, symbol |-> symbol, interval |-> interval,
     parameters |-> params, dataSource |-> dataSource, dataKey |-> None,
     operator |-> op, targetValue |-> targetValue, targetIndicatorId |-> targetId]

(***************************************************************************)
(* technicalStrategySource.ts: getTechnicalActiveIndicators                *)
(***************************************************************************)
\* The columns of the query's `distinct`: two rows are the same indicator
\* for the database when these agree (a Json column compares by content).
SameDistinct(a, b) ==
    /\ a.indicatorType = b.indicatorType
    /\ a.symbol = b.symbol
    /\ a.interval = b.interval
    /\ StructEq(JObj(a.parameters), JObj(b.parameters))

\* prisma.condition.findMany({where, select, distinct}): of the rows linked
\* to a block of an active strategy, the first of each distinct group.
RECURSIVE FindDistinct(_, _)
FindDistinct(rows, acc) ==
    IF rows = <<>> THEN acc
    ELSE FindDistinct(Tail(rows),
            IF \E i \in DOMAIN acc : SameDistinct(acc[i], Head(rows))
            THEN acc ELSE Append(acc, Head(rows)))

\* `${cond.indicatorType}|${cond.symbol || 'NOSYMBOL'}|${cond.interval || 'NOINTERVAL'}|${paramKey}`
OrElse(o, dflt) == IF IsSome(o) /\ Get(o) # "" THEN Get(o) ELSE dflt
IndicatorMapKey(cond) ==
    cond.indicatorType \o "|" \o OrElse(cond.symbol, "NOSYMBOL") \o "|"
    \o OrElse(cond.interval, "NOINTERVAL") \o "|"
    \o Flatten(JSONstringify(JObj(cond.parameters)))

\* A nullable string column as a JavaScript value.
JNullable(o) == IF IsSome(o) THEN JStr(Get(o)) ELSE JNull

\* The TechnicalIndicatorIdentifier built for a row (technicalIndicators.set).
IndicatorOf(cond) ==
    JObj(<<Pair("function", JStr(cond.indicatorType)),
           Pair("indicatorType", JStr(cond.indicatorType)),
           Pair("symbol", JStr(OrElse(cond.symbol, ""))),
           Pair("interval", JStr(OrElse(cond.interval, ""))),
           Pair("parameters", JObj(cond.parameters)),
           Pair("dataSource", JNullable(cond.dataSource)),
           Pair("dataKey", JNullable(cond.dataKey))>>)

\* activeConditions.forEach: keep the first row of each map key, skip a row
\* with no symbol or no interval.  seen: the keys set so far.
RECURSIVE CollectIndicators(_, _, _)
CollectIndicators(rows, seen, acc) ==
    IF rows = <<>> THEN acc
    ELSE LET cond == Head(rows)
             key == IndicatorMapKey(cond)
         IN  IF key \in seen THEN CollectIndicators(Tail(rows), seen, acc)
             ELSE IF OrElse(cond.symbol, "") = "" \/ OrElse(cond.interval, "") = ""
             THEN CollectIndicators(Tail(rows), seen, acc)
             ELSE CollectIndicators(Tail(rows), seen \cup {key},
                                    Append(acc, IndicatorOf(cond)))

\* A variant that builds an indicator for every row of the query, also for
\* a row with no symbol or no interval.
getTechnicalActiveIndicators_NoSkip(rows) ==
    [i \in DOMAIN FindDistinct(rows, <<>>) |-> IndicatorOf(FindDistinct(rows, <<>>)[i])]

getTechnicalActiveIndicators(rows) ==
    CollectIndicators(FindDistinct(rows, <<>>), {}, <<>>)

(***************************************************************************)
(* schedulerService (technicalStrategySource.ts, lines 98-152)             *)
(***************************************************************************)
\* The Condition rows of the database the scheduler runs against.
SchedConds ==
    <<CondRow("cA", "SMA", Some("AAPL"), Some("daily"),
              <<Pair("time_period", JNum(20))>>, None, "GREATER_THAN", Some(150), None),
      CondRow("cB", "EMA", Some("AAPL"), Some("daily"),
              <<Pair("time_period", JNum(20))>>, None, "GREATER_THAN", Some(150), None),
      CondRow("cC", "SMA", Some("AAPL"), Some("daily"),
              <<Pair("time_period", JNum(50))>>, None, "LESS_THAN", Some(150), None),
      CondRow("cD", "RSI", None, Some("daily"),
              <<Pair("time_period", JNum(14))>>, None, "LESS_THAN", Some(30), None)>>

\* Condition rows of which three agree on indicator type, symbol, interval
\* and parameters and differ in dataSource.
SourceConds ==
    <<CondRow("sA", "SMA", Some("AAPL"), Some("daily"),
              <<Pair("time_period", JNum(20))>>, None, "GREATER_THAN", Some(150), None),
      CondRow("sB", "SMA", Some("AAPL"), Some("daily"),
              <<Pair("time_period", JNum(20))>>, Some("alphavantage"), "GREATER_THAN",
              Some(150), None),
      CondRow("sC", "SMA", Some("AAPL"), Some("daily"),
              <<Pair("time_period", JNum(20))>>, Some("polygon"), "LESS_THAN",
              Some(150), None),
      CondRow("sD", "EMA", Some("AAPL"), Some("daily"),
              <<Pair("time_period", JNum(20))>>, None, "LESS_THAN", Some(150), None)>>

\* Discovery ticks the model runs, and ticks whose scan may be pending at once.
MaxTicks == 2
MaxPending == 2

RECURSIVE RowsOf(_, _)
\* The rows with index in S, in table order.
RowsOf(S, i) ==
    IF i > Len(SchedConds) THEN <<>>
    ELSE (IF i \in S THEN <<SchedConds[i]>> ELSE <<>>) \o RowsOf(S, i + 1)

\* What the scan returns for each set of rows linked to an active strategy.
ScanResult ==
    [S \in SUBSET (DOMAIN SchedConds) |-> getTechnicalActiveIndicators(RowsOf(S, 1))]

\* fetchOrchestrator.scheduleIndicatorFetch: creates and starts the recurring
\* refresh task of an indicator and returns it.
scheduleIndicatorFetch(indicatorParams, id) == Some(id)

\* generateCacheKey(indicatorParams) of every indicator a scan can return,
\* computed once.
JobKeyOf ==
    [ind \in {IndicatorOf(SchedConds[i]) : i \in DOMAIN SchedConds}
              \cup {IndicatorOf(SourceConds[i]) : i \in DOMAIN SourceConds} |->
        generateCacheKey(ind)]

RECURSIVE ScheduleNew_Always(_, _, _)
\* A variant that schedules a task without looking the job key up in the map.
ScheduleNew_Always(inds, i, st) ==
    IF i > Len(inds) THEN st
    ELSE LET jobKey == JobKeyOf[inds[i]]
             task == scheduleIndicatorFetch(inds[i], st.next)
         IN  ScheduleNew_Always(inds, i + 1,
                [jobs |-> [k \in DOMAIN st.jobs \cup {jobKey} |->
                              IF k = jobKey THEN Get(task) ELSE st.jobs[k]],
                 next |-> st.next + 1,
                 created |-> st.created \cup {Get(task)}])

RECURSIVE ScheduleNew(_, _, _)
\* indicatorsToSchedule.forEach: a task for every job key not in the map.
\* st = [jobs, next, created].
ScheduleNew(inds, i, st) ==
    IF i > Len(inds) THEN st
    ELSE LET jobKey == JobKeyOf[inds[i]]
         IN  IF jobKey \in DOMAIN st.jobs THEN ScheduleNew(inds, i + 1, st)
             ELSE LET task == scheduleIndicatorFetch(inds[i], st.next)
                  IN  IF IsSome(task)
                      THEN ScheduleNew(inds, i + 1,
                              [jobs |-> [k \in DOMAIN st.jobs \cup {jobKey} |->
                                            IF k = jobKey THEN Get(task) ELSE st.jobs[k]],
                               next |-> st.next + 1,
                               created |-> st.created \cup {Get(task)}])
                      ELSE ScheduleNew(inds, i + 1, st)

NewJobKeys(inds) == {JobKeyOf[inds[i]] : i \in DOMAIN inds}

\* scheduledJobs.forEach: the entries the prune keeps, and the tasks it stops.
\* A variant that forgets to stop and delete the jobs no longer needed.
PruneJobs_Keep(jobs, newJobKeys) == jobs

PruneJobs(jobs, newJobKeys) ==
    [k \in DOMAIN jobs \cap newJobKeys |-> jobs[k]]
PrunedTasks(jobs, newJobKeys) ==
    {jobs[k] : k \in DOMAIN jobs \ newJobKeys}

IdleSched ==
    /\ activeConds = {}
    /\ scheduledJobs = <<>>
    /\ taskState = <<>>
    /\ nextTask = 1
    /\ pendingScans = {}
    /\ tickCount = 0
    /\ prevJobs = <<>>
    /\ lastScanKeys = {}
    /\ lastOp = "none"

\* After startScheduler: the discovery task is registered, no job yet.
InitSched == IdleSched

RECURSIVE SourceRowsOf(_, _)
\* The rows of SourceConds with index in S, in table order.
SourceRowsOf(S, i) ==
    IF i > Len(SourceConds) THEN <<>>
    ELSE (IF i \in S THEN <<SourceConds[i]>> ELSE <<>>) \o SourceRowsOf(S, i + 1)

\* What the scan returns for each set of rows linked to an active strategy.
SourceScanResult ==
    [S \in SUBSET (DOMAIN SourceConds) |-> getTechnicalActiveIndicators(SourceRowsOf(S, 1))]

\* Discovery ticks run against these rows.
MaxSourceTicks == 2

IdleSource ==
    /\ srcActive = {}
    /\ srcJobs = <<>>
    /\ srcNext = 1
    /\ srcTicks = 0
    /\ srcScanned = None

InitSource == IdleSource

\* A row becomes, or stops being, linked to a block of an active strategy.
SetSourceActive ==
    /\ \E i \in DOMAIN SourceConds :
          srcActive' = IF i \in srcActive THEN srcActive \ {i} ELSE srcActive \cup {i}
    /\ srcScanned' = None
    /\ UNCHANGED <<srcJobs, srcNext, srcTicks>>

\* One discovery tick from its scan to its end, no other tick meanwhile.
SourceTick ==
    /\ srcTicks < MaxSourceTicks
    /\ LET indicatorsToSchedule == SourceScanResult[srcActive]
           st == ScheduleNew(indicatorsToSchedule, 1,
                    [jobs |-> srcJobs, next |-> srcNext, created |-> {}])
       IN  /\ srcJobs' = PruneJobs(st.jobs, NewJobKeys(indicatorsToSchedule))
           /\ srcNext' = st.next
    /\ srcTicks' = srcTicks + 1
    /\ srcScanned' = Some(srcActive)
    /\ UNCHANGED srcActive

\* After startScheduler against a database whose strategies are not edited
\* while the scheduler runs: any set of rows is linked to an active strategy.
InitScan ==
    /\ activeConds \in SUBSET (DOMAIN SchedConds)
    /\ scheduledJobs = <<>>
    /\ taskState = <<>>
    /\ nextTask = 1
    /\ pendingScans = {}
    /\ tickCount = 0
    /\ prevJobs = <<>>
    /\ lastScanKeys = {}
    /\ lastOp = "none"

\* The strategy API activates or deactivates a strategy, links or unlinks a
\* condition: a row becomes, or stops being, linked to an active strategy.
SetActiveConds ==
    /\ \E i \in DOMAIN SchedConds :
          activeConds' = IF i \in activeConds THEN activeConds \ {i}
                         ELSE activeConds \cup {i}
    /\ UNCHANGED <<scheduledJobs, taskState, nextTask, pendingScans, tickCount,
                   prevJobs, lastScanKeys, lastOp>>

\* The discovery cron fires: the callback starts and awaits the scan, which
\* reads the rows linked to an active strategy at this moment.
TickStart ==
    /\ tickCount < MaxTicks
    /\ Cardinality(pendingScans) < MaxPending
    /\ tickCount' = tickCount + 1
    /\ pendingScans' = pendingScans \cup
          {[tick |-> tickCount + 1, inds |-> ScanResult[activeConds]]}
    /\ UNCHANGED <<activeConds, scheduledJobs, taskState, nextTask,
                   prevJobs, lastScanKeys, lastOp>>

\* The scan of a tick resolves: the rest of the callback runs to its end.
TickApply ==
    \E scan \in pendingScans :
        LET indicatorsToSchedule == scan.inds
            st == ScheduleNew(indicatorsToSchedule, 1,
                     [jobs |-> scheduledJobs, next |-> nextTask, created |-> {}])
            newJobKeys == NewJobKeys(indicatorsToSchedule)
            stopped == PrunedTasks(st.jobs, newJobKeys)
        IN  /\ pendingScans' = pendingScans \ {scan}
            /\ scheduledJobs' = PruneJobs(st.jobs, newJobKeys)
            /\ nextTask' = st.next
            /\ taskState' = [t \in DOMAIN taskState \cup st.created |->
                                IF t \in stopped THEN "stopped"
                                ELSE IF t \in st.created THEN "running"
                                ELSE taskState[t]]
            /\ prevJobs' = scheduledJobs
            /\ lastScanKeys' = newJobKeys
            /\ lastOp' = "tick"
            /\ UNCHANGED <<activeConds, tickCount>>

\* The scan of a tick rejects: the callback's catch logs the error.
TickFail ==
    \E scan \in pendingScans :
        /\ pendingScans' = pendingScans \ {scan}
        /\ UNCHANGED <<activeConds, scheduledJobs, taskState, nextTask, tickCount,
                       prevJobs, lastScanKeys, lastOp>>

\* A variant that empties the map without stopping its tasks.
stopScheduler_ClearOnly ==
    /\ scheduledJobs' = <<>>
    /\ lastOp' = "stop"
    /\ UNCHANGED <<activeConds, taskState, nextTask, pendingScans, tickCount, prevJobs,
                   lastScanKeys>>

stopScheduler ==
    /\ taskState' = [t \in DOMAIN taskState |->
                        IF \E k \in DOMAIN scheduledJobs : scheduledJobs[k] = t
                        THEN "stopped" ELSE taskState[t]]
    /\ scheduledJobs' = <<>>
    /\ lastOp' = "stop"
    /\ UNCHANGED <<activeConds, nextTask, pendingScans, tickCount, prevJobs,
                   lastScanKeys>>

TasksOf(jobs) == {jobs[k] : k \in DOMAIN jobs}

\* Discovery ticks followed one by one: the model runs this many.
MaxOverlapTicks == 2

\* The callback's catch: the error is logged, the map stays as it is.
TickCatch_Clear(jobs) == <<>>

TickCatch(jobs) == jobs

IdleTicks ==
    /\ tkActive = {}
    /\ tkJobs = <<>>
    /\ tkTasks = <<>>
    /\ tkNext = 1
    /\ tkPending = {}
    /\ tkCount = 0
    /\ tkStarted = <<>>
    /\ tkApplied = {}
    /\ tkFailed = {}
    /\ tkStopped = FALSE

\* After startScheduler: the discovery task is registered, no job yet.
InitTicks == IdleTicks

\* A row becomes, or stops being, linked to a block of an active strategy.
SetTickActive ==
    /\ \E i \in DOMAIN SchedConds :
          tkActive' = IF i \in tkActive THEN tkActive \ {i} ELSE tkActive \cup {i}
    /\ UNCHANGED <<tkJobs, tkTasks, tkNext, tkPending, tkCount, tkStarted, tkApplied, tkFailed, tkStopped>>

\* The discovery cron fires: the callback starts and awaits the scan, which
\* reads the rows linked to an active strategy at this moment.  The cron
\* does not wait for the callback of the tick before.
OverlapTickStart ==
    /\ tkCount < MaxOverlapTicks
    /\ tkCount' = tkCount + 1
    /\ tkPending' = tkPending \cup {[tick |-> tkCount + 1, inds |-> ScanResult[tkActive]]}
    /\ tkStarted' = Append(tkStarted, NewJobKeys(ScanResult[tkActive]))
    /\ UNCHANGED <<tkActive, tkJobs, tkTasks, tkNext, tkApplied, tkFailed, tkStopped>>

\* The scan of a tick resolves: the rest of the callback runs to its end.
OverlapTickApply ==
    \E scan \in tkPending :
        LET indicatorsToSchedule == scan.inds
            st == ScheduleNew(indicatorsToSchedule, 1,
                     [jobs |-> tkJobs, next |-> tkNext, created |-> {}])
            newJobKeys == NewJobKeys(indicatorsToSchedule)
            stopped == PrunedTasks(st.jobs, newJobKeys)
        IN  /\ tkPending' = tkPending \ {scan}
            /\ tkJobs' = PruneJobs(st.jobs, newJobKeys)
            /\ tkNext' = st.next
            /\ tkTasks' = [t \in DOMAIN tkTasks \cup st.created |->
                              IF t \in stopped THEN "stopped"
                              ELSE IF t \in st.created THEN "running"
                              ELSE tkTasks[t]]
            /\ tkApplied' = tkApplied \cup {scan.tick}
            /\ UNCHANGED <<tkActive, tkCount, tkStarted, tkFailed, tkStopped>>

\* The scan of a tick rejects: the callback's catch logs the error.
OverlapTickFail ==
    \E scan \in tkPending :
        /\ tkPending' = tkPending \ {scan}
        /\ tkJobs' = TickCatch(tkJobs)
        /\ tkFailed' = tkFailed \cup {scan.tick}
        /\ UNCHANGED <<tkActive, tkTasks, tkNext, tkCount, tkStarted, tkApplied, tkStopped>>

\* stopScheduler: every task of the map is stopped and its entry deleted.
\* The discovery task, whose handle startScheduler did not keep, goes on.
StopTicks ==
    /\ ~tkStopped
    /\ tkTasks' = [t \in DOMAIN tkTasks |->
                      IF \E k \in DOMAIN tkJobs : tkJobs[k] = t THEN "stopped"
                      ELSE tkTasks[t]]
    /\ tkJobs' = <<>>
    /\ tkStopped' = TRUE
    /\ UNCHANGED <<tkActive, tkNext, tkPending, tkCount, tkStarted, tkApplied, tkFailed>>

(***************************************************************************)
(* cache.ts: the freshness cache.  cache maps a key to the stored string   *)
(* and the instant the store drops it (SET key value EX ttl).              *)
(***************************************************************************)
\* A plain string as a field of a stream entry or a stored value.
TRaw(s) == Tok("raw", s, 0)

\* A variant that does not see the expiry of a stored value.
RedisGet_NoExpiry(c, t, key) ==
    IF key \in DOMAIN c THEN Some(c[key].value) ELSE None

\* redisClient.get(key): the stored string, None once the TTL has elapsed.
RedisGet(c, t, key) ==
    IF key \in DOMAIN c /\ t < c[key].expireAt THEN Some(c[key].value) ELSE None

\* getCachedIndicatorEntry: the parsed entry, None on a miss, on an empty
\* string and on a stored value that does not parse.
getCachedIndicatorEntry(c, t, key) ==
    LET cached == RedisGet(c, t, key)
    IN  IF ~IsSome(cached) \/ Get(cached) = <<>> THEN None
        ELSE LET pv == JSONparse(Get(cached))
             IN  IF pv.ok THEN Some(pv.v) ELSE None

\* new Date().toISOString() at instant t.
IsoTime(t) == JStr(ToString(t))

\* setCachedIndicatorData: redisClient.set(key, JSON.stringify(cacheEntry), {EX}).
setCachedIndicatorData(c, t, key, data, metadata, ttlSeconds) ==
    LET cacheEntry == JObj(<<Pair("data", data), Pair("metadata", metadata),
                             Pair("fetchedAt", IsoTime(t))>>)
    IN  [k \in DOMAIN c \cup {key} |->
            IF k = key
            THEN [value |-> JSONstringify(cacheEntry), expireAt |-> t + ttlSeconds]
            ELSE c[k]]

(***************************************************************************)
(* redisStream.ts: publishIndicatorUpdate                                  *)
(***************************************************************************)
\* String(value) of a scalar; an object gives "[object Object]".
StringOf(value) ==
    CASE value.t = "str" -> <<TRaw(value.s)>>
      [] value.t = "num" -> <<TRaw(ToString(value.n))>>
      [] OTHER -> <<TRaw("[object Object]")>>

RECURSIVE IndicatorStreamData(_, _)
\* The field map handed to XADD: null and undefined members are skipped,
\* parameters is serialised with JSON.stringify, the rest with String().
IndicatorStreamData(pairs, i) ==
    IF i > Len(pairs) THEN <<>>
    ELSE LET key == pairs[i].k
             value == pairs[i].v
         IN  (IF value.t = "null" THEN <<>>
              ELSE IF key = "parameters" /\ value.t = "obj"
              THEN <<Pair(key, JSONstringify(value))>>
              ELSE <<Pair(key, StringOf(value))>>)
             \o IndicatorStreamData(pairs, i + 1)

\* redisClient.xAdd(stream, '*', streamData): the stream with the new entry.
XAdd(stream, streamData) ==
    Append(stream, [id |-> Len(stream) + 1, message |-> streamData])

\* publishIndicatorUpdate: nothing is appended when the client is not ready
\* or when xAdd throws; neither is reported to the caller.
publishIndicatorUpdate(stream, payload, ready, addOk) ==
    IF ~ready THEN stream
    ELSE IF ~addOk THEN stream
    ELSE XAdd(stream, IndicatorStreamData(payload.o, 1))

(***************************************************************************)
(* technicalIndicators.ts: getTechnicalIndicator                           *)
(***************************************************************************)
\* A value used as a condition: null, undefined, "" and 0 are falsy.
Truthy(o) ==
    /\ IsSome(o)
    /\ Get(o).t # "null"
    /\ ~(Get(o).t = "str" /\ Get(o).s = "")
    /\ ~(Get(o).t = "num" /\ Get(o).n = 0)

RateLimitText == "Thank you for using Alpha Vantage! Our standard API call frequency is 5 calls per minute."
\* (data["Note"] || data["Information"])?.includes("API call frequency")
HasRateLimitNote(data) ==
    LET note == IF Truthy(Field(data, "Note")) THEN Field(data, "Note")
                ELSE Field(data, "Information")
    IN  data.t = "obj" /\ IsSome(note) /\ Get(note) = JStr(RateLimitText)

\* The basic validation that throws: no object, an error message, no metadata.
InvalidResponse(data) ==
    \/ data.t # "obj"
    \/ Truthy(Field(data, "Error Message"))
    \/ ~Truthy(Field(data, "Meta Data"))

\* Object.values(data).find(val => typeof val === 'object' && val !== null
\*                                 && !val.hasOwnProperty('1: Symbol'))
RECURSIVE FindIndicatorData(_, _)
FindIndicatorData(pairs, i) ==
    IF i > Len(pairs) THEN None
    ELSE IF pairs[i].v.t = "obj" /\ ~HasKey(pairs[i].v.o, "1: Symbol")
    THEN Some(pairs[i].v)
    ELSE FindIndicatorData(pairs, i + 1)

\* A variant with the default TTL for every interval.
TtlSeconds_Default(interval) == 86400

\* Determine TTL based on interval.
TtlSeconds(interval) ==
    IF interval = Some(JStr("1min")) THEN 60 * 5
    ELSE IF interval = Some(JStr("5min")) THEN 300 * 2
    ELSE IF interval = Some(JStr("daily")) THEN 86400 + 3600
    ELSE IF interval = Some(JStr("weekly")) THEN 86400 * 7 + 3600
    ELSE IF interval = Some(JStr("monthly")) THEN 86400 * 30 + 3600
    ELSE 86400

\* { ...metadata, alphaVantageLastRefreshed: lastRefreshedAV }; JSON.stringify
\* drops the member when lastRefreshedAV is undefined.
CacheMetadata(metadata, lastRefreshedAV) ==
    IF IsSome(lastRefreshedAV)
    THEN JObj(SetKey(metadata.o, "alphaVantageLastRefreshed", Get(lastRefreshedAV)))
    ELSE metadata

\* The object handed to publishIndicatorUpdate; an undefined member is left
\* out here as the publisher skips it.
UpdatePayload(cacheKey, params, lastRefreshedAV, t) ==
    JObj(<<Pair("cacheKey", JStr(cacheKey))>>
         \o Member("indicatorType", Field(params, "function"))
         \o Member("symbol", Field(params, "symbol"))
         \o Member("interval", Field(params, "interval"))
         \o <<Pair("parameters", params)>>
         \o Member("lastRefreshed", lastRefreshedAV)
         \o <<Pair("fetchTime", IsoTime(t))>>)

(***************************************************************************)
(* The provider's answers and the requests of the fetcher's specification. *)
(***************************************************************************)
\* A series: time-indexed points, newest first as Alpha Vantage sends them.
SeriesPoint(date, name, v) == Pair(date, JObj(<<Pair(name, v)>>))
SeriesRise == JObj(<<SeriesPoint("2024-01-03", "SMA", JStr("155.0000")),
                     SeriesPoint("2024-01-02", "SMA", JStr("149.0000"))>>)

MetaData == JObj(<<Pair("1: Symbol", JStr("AAPL")), Pair("2: Indicator", JStr("SMA")),
                   Pair("3: Last Refreshed", JStr("2024-01-03"))>>)
\* The metadata block of an endpoint that does not number its symbol "1: Symbol".
MetaDataOther == JObj(<<Pair("1. Information", JStr("Daily Prices")),
                        Pair("2. Symbol", JStr("AAPL"))>>)

HttpOk(data) == [ok |-> TRUE, data |-> data]
HttpFail == [ok |-> FALSE, data |-> JNull]

GoodResponse ==
    HttpOk(JObj(<<Pair("Meta Data", MetaData), Pair("Technical Analysis: SMA", SeriesRise)>>))

ProviderResponses ==
    {HttpFail,
     HttpOk(JStr("<html>Bad Gateway</html>")),
     HttpOk(JObj(<<Pair("Error Message", JStr("Invalid API call."))>>)),
     HttpOk(JObj(<<Pair("Note", JStr(RateLimitText))>>)),
     HttpOk(JObj(<<Pair("Technical Analysis: SMA", SeriesRise)>>)),
     HttpOk(JObj(<<Pair("Meta Data", MetaData)>>)),
     HttpOk(JObj(<<Pair("Meta Data", MetaDataOther)>>)),
     GoodResponse,
     HttpOk(JObj(<<Pair("Meta Data", MetaData), Pair("Technical Analysis: SMA", SeriesRise),
                   Pair("Note", JStr(RateLimitText))>>))}

\* The response lacks the metadata block / a data block / carries an error
\* message / carries a rate-limit signal.
LacksMetadata(data) == data.t # "obj" \/ ~HasKey(data.o, "Meta Data")
LacksData(data) ==
    data.t # "obj" \/
    ~\E i \in DOMAIN data.o : data.o[i].k # "Meta Data" /\ data.o[i].v.t = "obj"
HasErrorMessage(data) == data.t = "obj" /\ HasKey(data.o, "Error Message")
SoftFailure(resp) ==
    \/ ~resp.ok
    \/ LacksMetadata(resp.data)
    \/ LacksData(resp.data)
    \/ HasErrorMessage(resp.data)
    \/ HasRateLimitNote(resp.data)

FetchRequests ==
    {IndicatorOf(SchedConds[1]),
     IndicatorOf(CondRow("cE", "SMA", Some("AAPL"), Some("1min"),
                         <<Pair("time_period", JNum(20))>>, None,
                         "GREATER_THAN", Some(150), None))}

\* getSMA(symbol, interval, time_period, series_type), getEMA(...): the
\* object the on-demand helpers hand to getTechnicalIndicator.
HelperRequest(function, time_period) ==
    JObj(<<Pair("function", JStr(function)), Pair("symbol", JStr("AAPL")),
           Pair("interval", JStr("daily")), Pair("time_period", JStr(time_period)),
           Pair("series_type", JStr("close"))>>)

\* Requests for the SMA and the EMA of AAPL, daily, over 20 or 50 points:
\* through the helpers, and as the scheduler builds them from Condition rows.
IndicatorRequests ==
    {HelperRequest(function, time_period) :
        function \in {"SMA", "EMA"}, time_period \in {"20", "50"}}
    \cup {IndicatorOf(SchedConds[i]) : i \in 1..3}

\* The indicator and the period a request asks for.
RequestedFunction(params) == Get(Field(params, "function")).s
RequestedPeriod(params) ==
    IF IsSome(Field(params, "parameters"))
    THEN ToString(Lookup(Get(Field(params, "parameters")).o, "time_period").n)
    ELSE Get(Field(params, "time_period")).s

\* The series the provider holds for an indicator and a period, and its
\* answer to a request.
SeriesFor(function, time_period) ==
    JObj(<<Pair("2024-01-03", JObj(<<Pair(function, JStr(time_period \o ".0000"))>>))>>)
ResponseFor(params) ==
    [ok |-> TRUE,
     data |-> JObj(<<Pair("Meta Data", MetaData),
                     Pair("Technical Analysis: " \o RequestedFunction(params),
                          SeriesFor(RequestedFunction(params), RequestedPeriod(params)))>>)]

\* generateCacheKey over the requests of this specification, tabulated.
FetchKeyOf ==
    [params \in FetchRequests \cup IndicatorRequests |-> generateCacheKey(params)]

\* A variant that never answers from the cache.
UseCache_Never(forceRefresh, cachedEntry) == FALSE

\* if (!forceRefresh) { ...; if (cachedEntry) return cachedEntry.data }
UseCache(forceRefresh, cachedEntry) == ~forceRefresh /\ Truthy(cachedEntry)

\* What one call does: [contacted, cache, stream, result].  result is the
\* returned value, None for null.  resp = [ok, data]: the HTTP call's
\* outcome; setOk, ready, addOk: whether the cache write, the stream client
\* and the append work.
\* A variant whose publish step throws into the catch block of the call when
\* the stream does not take the event.
getTechnicalIndicator_PublishThrows(c, stream, t, params, forceRefresh, resp, setOk, ready, addOk) ==
    LET cacheKey == FetchKeyOf[params]
        cachedEntry == getCachedIndicatorEntry(c, t, cacheKey)
        aborted == [contacted |-> TRUE, cache |-> c, stream |-> stream, result |-> None]
    IN  IF UseCache(forceRefresh, cachedEntry)
        THEN [contacted |-> FALSE, cache |-> c, stream |-> stream,
              result |-> IF Get(cachedEntry).t = "obj"
                         THEN Field(Get(cachedEntry), "data") ELSE None]
        ELSE IF ~resp.ok THEN aborted
        ELSE IF InvalidResponse(resp.data) THEN aborted
        ELSE LET data == resp.data
                 metadata == Get(Field(data, "Meta Data"))
                 actualIndicatorData == FindIndicatorData(data.o, 1)
                 lastRefreshedAV ==
                     IF metadata.t = "obj" THEN Field(metadata, "3: Last Refreshed")
                     ELSE None
                 ttlSeconds == TtlSeconds(Field(params, "interval"))
             IN  IF ~IsSome(actualIndicatorData) THEN aborted
                 ELSE IF ~setOk THEN aborted
                 ELSE [contacted |-> TRUE,
                       cache |-> setCachedIndicatorData(c, t, cacheKey,
                                    Get(actualIndicatorData),
                                    CacheMetadata(metadata, lastRefreshedAV), ttlSeconds),
                       stream |-> publishIndicatorUpdate(stream,
                                    UpdatePayload(cacheKey, params, lastRefreshedAV, t),
                                    ready, addOk),
                       result |-> IF ready /\ addOk THEN actualIndicatorData ELSE None]

\* A variant that publishes the event before it writes the cache.
getTechnicalIndicator_PublishFirst(c, stream, t, params, forceRefresh, resp, setOk, ready, addOk) ==
    LET cacheKey == FetchKeyOf[params]
        cachedEntry == getCachedIndicatorEntry(c, t, cacheKey)
        aborted == [contacted |-> TRUE, cache |-> c, stream |-> stream, result |-> None]
    IN  IF UseCache(forceRefresh, cachedEntry)
        THEN [contacted |-> FALSE, cache |-> c, stream |-> stream,
              result |-> IF Get(cachedEntry).t = "obj"
                         THEN Field(Get(cachedEntry), "data") ELSE None]
        ELSE IF ~resp.ok THEN aborted
        ELSE IF InvalidResponse(resp.data) THEN aborted
        ELSE LET data == resp.data
                 metadata == Get(Field(data, "Meta Data"))
                 actualIndicatorData == FindIndicatorData(data.o, 1)
                 lastRefreshedAV ==
                     IF metadata.t = "obj" THEN Field(metadata, "3: Last Refreshed")
                     ELSE None
                 ttlSeconds == TtlSeconds(Field(params, "interval"))
                 published == publishIndicatorUpdate(stream,
                                 UpdatePayload(cacheKey, params, lastRefreshedAV, t),
                                 ready, addOk)
             IN  IF ~IsSome(actualIndicatorData) THEN aborted
                 ELSE IF ~setOk
                 THEN [contacted |-> TRUE, cache |-> c, stream |-> published,
                       result |-> None]
                 ELSE [contacted |-> TRUE,
                       cache |-> setCachedIndicatorData(c, t, cacheKey,
                                    Get(actualIndicatorData),
                                    CacheMetadata(metadata, lastRefreshedAV), ttlSeconds),
                       stream |-> published,
                       result |-> actualIndicatorData]

getTechnicalIndicator(c, stream, t, params, forceRefresh, resp, setOk, ready, addOk) ==
    LET cacheKey == FetchKeyOf[params]
        cachedEntry == getCachedIndicatorEntry(c, t, cacheKey)
        aborted == [contacted |-> TRUE, cache |-> c, stream |-> stream, result |-> None]
    IN  IF UseCache(forceRefresh, cachedEntry)
        THEN [contacted |-> FALSE, cache |-> c, stream |-> stream,
              result |-> IF Get(cachedEntry).t = "obj"
                         THEN Field(Get(cachedEntry), "data") ELSE None]
        ELSE IF ~resp.ok THEN aborted
        ELSE IF InvalidResponse(resp.data) THEN aborted
        ELSE LET data == resp.data
                 metadata == Get(Field(data, "Meta Data"))
                 actualIndicatorData == FindIndicatorData(data.o, 1)
                 lastRefreshedAV ==
                     IF metadata.t = "obj" THEN Field(metadata, "3: Last Refreshed")
                     ELSE None
                 ttlSeconds == TtlSeconds(Field(params, "interval"))
             IN  IF ~IsSome(actualIndicatorData) THEN aborted
                 ELSE IF ~setOk THEN aborted
                 ELSE [contacted |-> TRUE,
                       cache |-> setCachedIndicatorData(c, t, cacheKey,
                                    Get(actualIndicatorData),
                                    CacheMetadata(metadata, lastRefreshedAV), ttlSeconds),
                       stream |-> publishIndicatorUpdate(stream,
                                    UpdatePayload(cacheKey, params, lastRefreshedAV, t),
                                    ready, addOk),
                       result |-> actualIndicatorData]

\* Calls of getTechnicalIndicator and steps of the clock the model runs.
MaxFetchCalls == 2
MaxClockSteps == 1

\* What can go wrong around one call besides the provider's answer: the cache
\* write throws, the stream client is not ready, the append throws.
Faults == {"none", "cacheWrite", "streamNotReady", "streamAppend"}

IdleFetch ==
    /\ cache = <<>>
    /\ now = 0
    /\ clockSteps = 0
    /\ indStream = <<>>
    /\ providerCalls = 0
    /\ fetchCalls = 0
    /\ lastCall = [kind |-> "none"]

InitFetch == IdleFetch

\* Time passes: a minute, or up to the instant an entry of the cache expires.
PassTime ==
    /\ clockSteps < MaxClockSteps
    /\ clockSteps' = clockSteps + 1
    /\ \E t \in {now + 60} \cup {cache[k].expireAt : k \in DOMAIN cache} :
          t > now /\ now' = t
    /\ UNCHANGED <<cache, indStream, providerCalls, fetchCalls, lastCall>>

\* A scheduled task or an on-demand caller calls getTechnicalIndicator.
GetTechnicalIndicator ==
    /\ fetchCalls < MaxFetchCalls
    /\ \E params \in FetchRequests, forceRefresh \in BOOLEAN,
          resp \in ProviderResponses, fault \in Faults :
          \* a fault only shows after an answer that passes the validation
          /\ fault = "none" \/ resp = GoodResponse
          /\ LET r == getTechnicalIndicator(cache, indStream, now, params, forceRefresh,
                       resp, fault # "cacheWrite", fault # "streamNotReady",
                       fault # "streamAppend")
                 cacheKey == FetchKeyOf[params]
             IN  /\ cache' = r.cache
                 /\ indStream' = r.stream
                 /\ providerCalls' = providerCalls + (IF r.contacted THEN 1 ELSE 0)
                 /\ lastCall' = [kind |-> "call", cacheKey |-> cacheKey,
                                 forceRefresh |-> forceRefresh,
                                 contacted |-> r.contacted,
                                 resp |-> IF r.contacted THEN resp ELSE HttpFail,
                                 fault |-> IF r.contacted THEN fault ELSE "none",
                                 result |-> r.result]
    /\ fetchCalls' = fetchCalls + 1
    /\ UNCHANGED <<now, clockSteps>>

(***************************************************************************)
(* evaluator.ts (userRoutes.ts, lines 55-361): the Evaluation Engine.      *)
(* Numbers are fixed-point, in units of 1/Scale.                           *)
(***************************************************************************)
Scale == 100000
\* The 0.0001 of the EQUALS / NOT_EQUALS comparison, in units of 1/Scale.
Epsilon == 10

\* The strings of the model that parseFloat reads as a number.
NumericStrings ==
    [s \in {"140.0000", "149.0000", "151.0000", "155.0000"} |->
        CASE s = "140.0000" -> 140 * Scale
          [] s = "149.0000" -> 149 * Scale
          [] s = "151.0000" -> 151 * Scale
          [] OTHER -> 155 * Scale]

\* parseFloat(v): None stands for NaN.
ParseFloat(v) ==
    IF v.t = "num" THEN Some(v.n * Scale)
    ELSE IF v.t = "str" /\ v.s \in DOMAIN NumericStrings THEN Some(NumericStrings[v.s])
    ELSE None

\* The time keys of the model's series in ascending string order.
SortedDates == <<"2024-01-01", "2024-01-02", "2024-01-03">>
DateRank(d) ==
    IF \E i \in DOMAIN SortedDates : SortedDates[i] = d
    THEN CHOOSE i \in DOMAIN SortedDates : SortedDates[i] = d
    ELSE 0

RECURSIVE SortReverse(_)
\* Object.keys(indicatorData).sort().reverse()
SortReverse(keys) ==
    IF keys = {} THEN <<>>
    ELSE LET m == CHOOSE k \in keys : \A j \in keys : DateRank(j) <= DateRank(k)
         IN  <<m>> \o SortReverse(keys \ {m})

RECURSIVE FirstNumeric(_, _)
\* Object.keys(dataPoint).find(k => !isNaN(parseFloat(dataPoint[k]))), parsed.
FirstNumeric(pairs, i) ==
    IF i > Len(pairs) THEN None
    ELSE IF IsSome(ParseFloat(pairs[i].v)) THEN ParseFloat(pairs[i].v)
    ELSE FirstNumeric(pairs, i + 1)

\* The value of the data point at position pos (1 latest, 2 previous) of the
\* series sorted by time key, newest first.
IndicatorValueAt(indicatorData, pos) ==
    IF ~IsSome(indicatorData) \/ Get(indicatorData).t # "obj" THEN None
    ELSE LET dates == SortReverse(KeysOf(Get(indicatorData).o))
         IN  IF Len(dates) < pos THEN None
             ELSE LET dataPoint == Lookup(Get(indicatorData).o, dates[pos])
                  IN  IF dataPoint.t # "obj" THEN None
                      ELSE FirstNumeric(dataPoint.o, 1)

getLatestIndicatorValue(indicatorData) == IndicatorValueAt(indicatorData, 1)
getPreviousIndicatorValue(indicatorData) == IndicatorValueAt(indicatorData, 2)

\* cachedEntry.data
EntryData(cachedEntry) ==
    IF Get(cachedEntry).t = "obj" THEN Field(Get(cachedEntry), "data") ELSE None

\* A nullable string column as an optional JavaScript string.
OptStr(o) == IF IsSome(o) THEN Some(JStr(Get(o))) ELSE None

\* conditionCacheKeyParams / targetCacheKeyParams of a Condition row.
ConditionCacheKeyParams(condition) ==
    MkRequest(Some(JStr(condition.indicatorType)), OptStr(condition.symbol),
              OptStr(condition.interval), Some(JObj(condition.parameters)),
              OptStr(condition.dataSource))

\* generateCacheKey(conditionCacheKeyParams) of every row, as the evaluation
\* computes it when it reads the row's cache entry, tabulated.
SourceKeyOf ==
    [i \in DOMAIN SourceConds |-> generateCacheKey(ConditionCacheKeyParams(SourceConds[i]))]

Abs(x) == IF x < 0 THEN -x ELSE x

\* A variant that reads a crossing as being on the far side of the target.
Compare_Level(operator, currentValue, previousValue, target) ==
    CASE operator \in {"GREATER_THAN", "CROSSES_ABOVE"} -> currentValue > target
      [] operator \in {"LESS_THAN", "CROSSES_BELOW"} -> currentValue < target
      [] operator = "EQUALS" -> Abs(currentValue - target) < Epsilon
      [] operator = "NOT_EQUALS" -> Abs(currentValue - target) >= Epsilon
      [] operator = "GREATER_THAN_OR_EQUAL" -> currentValue >= target
      [] operator = "LESS_THAN_OR_EQUAL" -> currentValue <= target
      [] OTHER -> FALSE

\* A variant whose equality is exact.
Compare_Exact(operator, currentValue, previousValue, target) ==
    CASE operator = "GREATER_THAN" -> currentValue > target
      [] operator = "LESS_THAN" -> currentValue < target
      [] operator = "EQUALS" -> currentValue = target
      [] operator = "NOT_EQUALS" -> currentValue # target
      [] operator = "GREATER_THAN_OR_EQUAL" -> currentValue >= target
      [] operator = "LESS_THAN_OR_EQUAL" -> currentValue <= target
      [] operator = "CROSSES_ABOVE" ->
            IsSome(previousValue) /\ Get(previousValue) <= target /\ currentValue > target
      [] operator = "CROSSES_BELOW" ->
            IsSome(previousValue) /\ Get(previousValue) >= target /\ currentValue < target
      [] OTHER -> FALSE

\* switch (condition.operator)
Compare(operator, currentValue, previousValue, target) ==
    CASE operator = "GREATER_THAN" -> currentValue > target
      [] operator = "LESS_THAN" -> currentValue < target
      [] operator = "EQUALS" -> Abs(currentValue - target) < Epsilon
      [] operator = "NOT_EQUALS" -> Abs(currentValue - target) >= Epsilon
      [] operator = "GREATER_THAN_OR_EQUAL" -> currentValue >= target
      [] operator = "LESS_THAN_OR_EQUAL" -> currentValue <= target
      [] operator = "CROSSES_ABOVE" ->
            IsSome(previousValue) /\ Get(previousValue) <= target /\ currentValue > target
      [] operator = "CROSSES_BELOW" ->
            IsSome(previousValue) /\ Get(previousValue) >= target /\ currentValue < target
      [] OTHER -> FALSE

\* prisma.condition.findUnique({ where: { id } })
FindCondition(conds, id) ==
    IF \E i \in DOMAIN conds : conds[i].id = id
    THEN Some(conds[CHOOSE i \in DOMAIN conds : conds[i].id = id])
    ELSE None

\* A variant that follows the targetIndicatorId of the target Condition one
\* level further before it reads the cache.
ConditionTarget_Follow(condition, conds, keyOf, c, t) ==
    IF IsSome(condition.targetIndicatorId) /\ Get(condition.targetIndicatorId) # ""
    THEN LET first == FindCondition(conds, Get(condition.targetIndicatorId))
             targetCondition ==
                 IF IsSome(first) /\ IsSome(Get(first).targetIndicatorId)
                 THEN FindCondition(conds, Get(Get(first).targetIndicatorId))
                 ELSE first
         IN  IF ~IsSome(targetCondition) THEN None
             ELSE LET targetCachedEntry ==
                          getCachedIndicatorEntry(c, t, keyOf[Get(targetCondition).id])
                  IN  IF ~Truthy(targetCachedEntry) THEN None
                      ELSE getLatestIndicatorValue(EntryData(targetCachedEntry))
    ELSE condition.targetValue

\* The target a condition compares against: the latest cached value of the
\* target Condition's indicator, else the fixed targetValue; None when there
\* is none to compare against.
ConditionTarget(condition, conds, keyOf, c, t) ==
    IF IsSome(condition.targetIndicatorId) /\ Get(condition.targetIndicatorId) # ""
    THEN LET targetCondition == FindCondition(conds, Get(condition.targetIndicatorId))
         IN  IF ~IsSome(targetCondition) THEN None
             ELSE LET targetCachedEntry ==
                          getCachedIndicatorEntry(c, t, keyOf[Get(targetCondition).id])
                  IN  IF ~Truthy(targetCachedEntry) THEN None
                      ELSE getLatestIndicatorValue(EntryData(targetCachedEntry))
    ELSE condition.targetValue

evaluateSingleCondition(condition, currentValue, previousValue, conds, keyOf, c, t) ==
    LET target == ConditionTarget(condition, conds, keyOf, c, t)
    IN  IsSome(target)
        /\ Compare(condition.operator, currentValue, previousValue, Get(target))

\* One pass of the loop over allStrategyConditions: the entry under the
\* condition's own cache key, its latest value, the comparison.
ConditionMet(condition, conds, keyOf, c, t) ==
    LET cachedEntry == getCachedIndicatorEntry(c, t, keyOf[condition.id])
    IN  /\ Truthy(cachedEntry)
        /\ LET currentValue == getLatestIndicatorValue(EntryData(cachedEntry))
               previousValue == getPreviousIndicatorValue(EntryData(cachedEntry))
           IN  /\ IsSome(currentValue)
               /\ evaluateSingleCondition(condition, Get(currentValue), previousValue,
                                          conds, keyOf, c, t)

\* A variant that is satisfied by one condition that holds.
AllConditionsMet_Any(allStrategyConditions, conds, keyOf, c, t) ==
    \E i \in DOMAIN allStrategyConditions :
        ConditionMet(allStrategyConditions[i], conds, keyOf, c, t)

RECURSIVE ConditionsMetFrom(_, _, _, _, _, _)
ConditionsMetFrom(allStrategyConditions, i, conds, keyOf, c, t) ==
    IF i > Len(allStrategyConditions) THEN TRUE
    ELSE IF ~ConditionMet(allStrategyConditions[i], conds, keyOf, c, t) THEN FALSE
    ELSE ConditionsMetFrom(allStrategyConditions, i + 1, conds, keyOf, c, t)

\* let allConditionsMet = true; for (...) { ...; allConditionsMet = false; break }
AllConditionsMet(allStrategyConditions, conds, keyOf, c, t) ==
    ConditionsMetFrom(allStrategyConditions, 1, conds, keyOf, c, t)

(***************************************************************************)
(* redisStream.ts: publishActionRequired                                   *)
(***************************************************************************)
RECURSIVE ActionStreamData(_, _)
ActionStreamData(pairs, i) ==
    IF i > Len(pairs) THEN <<>>
    ELSE LET key == pairs[i].k
             value == pairs[i].v
         IN  (IF value.t = "null" THEN <<>>
              ELSE IF key = "parameters" \/ key = "triggeringIndicator"
              THEN <<Pair(key, JSONstringify(value))>>
              ELSE <<Pair(key, StringOf(value))>>)
             \o ActionStreamData(pairs, i + 1)

publishActionRequired(stream, payload, ready, addOk) ==
    IF ~ready THEN stream
    ELSE IF ~addOk THEN stream
    ELSE XAdd(stream, ActionStreamData(payload.o, 1))

\* The field k of a stream entry's message ("" tokens when it has none).
StreamField(message, k) ==
    IF \E i \in DOMAIN message : message[i].k = k
    THEN message[CHOOSE i \in DOMAIN message : message[i].k = k].v
    ELSE <<>>

(***************************************************************************)
(* evaluateStrategiesForIndicator                                          *)
(***************************************************************************)
\* db = [conditions, blocks, actions, active]: the rows the queries read;
\* blocks are kept in the order of their `order` column.
RECURSIVE AddUnique(_, _)
AddUnique(seq, xs) ==
    IF xs = <<>> THEN seq
    ELSE AddUnique(IF \E i \in DOMAIN seq : seq[i] = Head(xs) THEN seq
                   ELSE Append(seq, Head(xs)), Tail(xs))

\* typeof v === 'object' of a member (null included, undefined not).
TypeofObject(obj, k) == HasKey(obj.o, k) /\ Lookup(obj.o, k).t \in {"obj", "null"}

\* prisma.condition.findMany({ where: { indicatorType, symbol, interval } })
MatchingConditions(db, indicatorType, symbol, interval) ==
    SelectSeq(db.conditions,
              LAMBDA cond : /\ JStr(cond.indicatorType) = indicatorType
                            /\ OptStr(cond.symbol) = Some(symbol)
                            /\ OptStr(cond.interval) = Some(interval))

\* JSON.stringify(condition.parameters) !== JSON.stringify(updatedParams)
ParametersMatch(condition, updatedParams) ==
    JSONstringify(JObj(condition.parameters)) = JSONstringify(updatedParams)

\* A variant that takes the strategy of every block, active or not.
StrategiesOfBlocks_All(blocks, active) ==
    [i \in DOMAIN blocks |-> blocks[i].strategyId]

\* The strategy ids of the blocks a condition is linked to whose strategy is
\* active.
RECURSIVE ActiveStrategiesOfBlocks(_, _)
ActiveStrategiesOfBlocks(blocks, active) ==
    IF blocks = <<>> THEN <<>>
    ELSE (IF Head(blocks).strategyId \in active THEN <<Head(blocks).strategyId>> ELSE <<>>)
         \o ActiveStrategiesOfBlocks(Tail(blocks), active)

RECURSIVE RelevantStrategyIds(_, _, _, _)
\* relevantStrategyIds, in insertion order.
RelevantStrategyIds(db, matchingConditions, updatedParams, acc) ==
    IF matchingConditions = <<>> THEN acc
    ELSE LET condition == Head(matchingConditions)
             strategyBlocks == SelectSeq(db.blocks,
                                  LAMBDA b : b.conditionId = Some(condition.id))
         IN  RelevantStrategyIds(db, Tail(matchingConditions), updatedParams,
                IF ParametersMatch(condition, updatedParams)
                THEN AddUnique(acc, ActiveStrategiesOfBlocks(strategyBlocks, db.active))
                ELSE acc)

\* prisma.strategyBlock.findMany({ where: { strategyId }, orderBy: { order } })
StrategyBlocks(db, strategyId) ==
    SelectSeq(db.blocks, LAMBDA b : b.strategyId = strategyId)

RECURSIVE LinkedIds(_, _)
\* The ids of the conditions (field = "conditionId") or actions ("actionId")
\* linked to the blocks, each once, in block order.
LinkedIds(blocks, field) ==
    IF blocks = <<>> THEN <<>>
    ELSE AddUnique(<<>>, (IF IsSome(Head(blocks)[field]) THEN Head(blocks)[field] ELSE <<>>)
                         \o LinkedIds(Tail(blocks), field))

RowsById(rows, ids) == [i \in DOMAIN ids |-> rows[CHOOSE j \in DOMAIN rows : rows[j].id = ids[i]]]

AllStrategyConditions(db, strategyId) ==
    RowsById(db.conditions, LinkedIds(StrategyBlocks(db, strategyId), "conditionId"))
\* A variant that takes the actions of every block, whatever its strategy.
AllStrategyActions_AnyStrategy(db, strategyId) ==
    RowsById(db.actions, LinkedIds(db.blocks, "actionId"))

AllStrategyActions(db, strategyId) ==
    RowsById(db.actions, LinkedIds(StrategyBlocks(db, strategyId), "actionId"))

\* The payload of one publishActionRequired call.
ActionRequiredPayload(action, strategyId, indicatorUpdatePayload) ==
    JObj(<<Pair("actionId", JStr(action.id)),
           Pair("actionType", JStr(action.actionType)),
           Pair("parameters", action.parameters),
           Pair("strategyId", JStr(strategyId)),
           Pair("triggeringIndicator", indicatorUpdatePayload)>>)

RECURSIVE PublishActions(_, _, _, _, _, _)
\* for (const action of allStrategyActions) await publishActionRequired(...)
\* st = [stream, calls]; the first call of the cycle fails to append when
\* firstAddOk is false.
PublishActions(st, actions, strategyId, indicatorUpdatePayload, ready, firstAddOk) ==
    IF actions = <<>> THEN st
    ELSE LET action == Head(actions)
             addOk == firstAddOk \/ st.calls # <<>>
         IN  PublishActions(
                [stream |-> publishActionRequired(st.stream,
                                ActionRequiredPayload(action, strategyId, indicatorUpdatePayload),
                                ready, addOk),
                 calls |-> Append(st.calls, [strategyId |-> strategyId, actionId |-> action.id])],
                Tail(actions), strategyId, indicatorUpdatePayload, ready, firstAddOk)

RECURSIVE EvaluateStrategies_Abort(_, _, _, _, _, _, _, _, _)
\* A variant that leaves the cycle at the first strategy whose conditions are
\* not all met.
EvaluateStrategies_Abort(st, strategyIds, db, keyOf, c, t, indicatorUpdatePayload, ready, firstAddOk) ==
    IF strategyIds = <<>> THEN st
    ELSE LET strategyId == Head(strategyIds)
             allStrategyConditions == AllStrategyConditions(db, strategyId)
         IN  IF allStrategyConditions = <<>>
             THEN EvaluateStrategies_Abort(st, Tail(strategyIds), db, keyOf, c, t,
                                           indicatorUpdatePayload, ready, firstAddOk)
             ELSE IF AllConditionsMet(allStrategyConditions, db.conditions, keyOf, c, t)
             THEN EvaluateStrategies_Abort(
                      PublishActions(st, AllStrategyActions(db, strategyId), strategyId,
                                     indicatorUpdatePayload, ready, firstAddOk),
                      Tail(strategyIds), db, keyOf, c, t,
                      indicatorUpdatePayload, ready, firstAddOk)
             ELSE st

RECURSIVE EvaluateStrategies(_, _, _, _, _, _, _, _, _)
\* for (const strategyId of relevantStrategyIds) { ... }
EvaluateStrategies(st, strategyIds, db, keyOf, c, t, indicatorUpdatePayload, ready, firstAddOk) ==
    IF strategyIds = <<>> THEN st
    ELSE LET strategyId == Head(strategyIds)
             allStrategyConditions == AllStrategyConditions(db, strategyId)
             allStrategyActions == AllStrategyActions(db, strategyId)
             next ==
                IF allStrategyConditions = <<>> THEN st
                ELSE IF AllConditionsMet(allStrategyConditions, db.conditions, keyOf, c, t)
                THEN PublishActions(st, allStrategyActions, strategyId,
                                    indicatorUpdatePayload, ready, firstAddOk)
                ELSE st
         IN  EvaluateStrategies(next, Tail(strategyIds), db, keyOf, c, t,
                                indicatorUpdatePayload, ready, firstAddOk)

\* One evaluation cycle: [stream, calls, relevant].
evaluateStrategiesForIndicator(stream, indicatorUpdatePayload, db, keyOf, c, t, ready, firstAddOk) ==
    LET indicatorType == Field(indicatorUpdatePayload, "indicatorType")
        symbol == Field(indicatorUpdatePayload, "symbol")
        interval == Field(indicatorUpdatePayload, "interval")
        start == [stream |-> stream, calls |-> <<>>]
    IN  IF \/ ~Truthy(indicatorType) \/ ~Truthy(symbol) \/ ~Truthy(interval)
           \/ ~TypeofObject(indicatorUpdatePayload, "parameters")
        THEN [stream |-> stream, calls |-> <<>>, relevant |-> <<>>]
        ELSE LET updatedParams == Lookup(indicatorUpdatePayload.o, "parameters")
                 matchingConditions ==
                     MatchingConditions(db, Get(indicatorType), Get(symbol), Get(interval))
                 relevantStrategyIds ==
                     RelevantStrategyIds(db, matchingConditions, updatedParams, <<>>)
                 done == EvaluateStrategies(start, relevantStrategyIds, db, keyOf, c, t,
                                            indicatorUpdatePayload, ready, firstAddOk)
             IN  [stream |-> done.stream, calls |-> done.calls,
                  relevant |-> relevantStrategyIds]

(***************************************************************************)
(* The database and the events the Evaluation Engine runs against.         *)
(***************************************************************************)
EvalConds ==
    <<CondRow("c1", "SMA", Some("AAPL"), Some("daily"), <<Pair("time_period", JNum(20))>>,
              None, "GREATER_THAN", Some(150 * Scale), None),
      CondRow("c2", "EMA", Some("AAPL"), Some("daily"), <<Pair("time_period", JNum(20))>>,
              None, "LESS_THAN", Some(150 * Scale), None),
      CondRow("c3", "SMA", Some("AAPL"), Some("daily"), <<Pair("time_period", JNum(20))>>,
              None, "GREATER_THAN", None, Some("c2"))>>

BlockRow(id, strategyId, conditionId, actionId) ==
    [id |-> id, strategyId |-> strategyId, conditionId |-> conditionId, actionId |-> actionId]

\* S1: c1 (linked twice) and c2, actions a1 (linked twice) and a2.
\* S2: c1, action a3.  S3: c3 (SMA above EMA), no action.
EvalBlocks ==
    <<BlockRow("b10", "S1", None, None),
      BlockRow("b11", "S1", Some("c1"), Some("a1")),
      BlockRow("b12", "S1", Some("c2"), Some("a1")),
      BlockRow("b13", "S1", Some("c1"), Some("a2")),
      BlockRow("b20", "S2", None, None),
      BlockRow("b21", "S2", Some("c1"), None),
      BlockRow("b22", "S2", None, Some("a3")),
      BlockRow("b30", "S3", None, None),
      BlockRow("b31", "S3", Some("c3"), None)>>

ActionRow(id, actionType, parameters) ==
    [id |-> id, actionType |-> actionType, parameters |-> parameters]
EvalActions ==
    <<ActionRow("a1", "BUY", JObj(<<Pair("symbol", JStr("AAPL")), Pair("quantity", JNum(10))>>)),
      ActionRow("a2", "NOTIFY", JObj(<<>>)),
      ActionRow("a3", "SELL", JObj(<<Pair("symbol", JStr("AAPL"))>>))>>

StrategyIds == {"S1", "S2", "S3"}

Database(active) ==
    [conditions |-> EvalConds, blocks |-> EvalBlocks, actions |-> EvalActions,
     active |-> active]

\* generateCacheKey(conditionCacheKeyParams) of every Condition row, tabulated.
ConditionKeyOf ==
    [id \in {EvalConds[i].id : i \in DOMAIN EvalConds} |->
        generateCacheKey(ConditionCacheKeyParams(
            EvalConds[CHOOSE i \in DOMAIN EvalConds : EvalConds[i].id = id]))]

\* The series the cache can hold for a condition's indicator.
SeriesFall == JObj(<<SeriesPoint("2024-01-03", "SMA", JStr("140.0000")),
                     SeriesPoint("2024-01-02", "SMA", JStr("151.0000"))>>)
EvalSeries == {SeriesRise, SeriesFall}

\* The payload the evaluation consumer hands over for an update of the
\* indicator (type, symbol, interval, parameters).
UpdateEvent(type, symbol, interval, parameters) ==
    JObj(<<Pair("cacheKey", JStr("indicator:" \o type))>>
         \o <<Pair("indicatorType", JStr(type))>>
         \o Member("symbol", symbol)
         \o <<Pair("interval", JStr(interval)), Pair("parameters", parameters),
              Pair("fetchTime", JStr("0"))>>)

EvalPayloads ==
    {UpdateEvent("SMA", Some(JStr("AAPL")), "daily", JObj(<<Pair("time_period", JNum(20))>>)),
     UpdateEvent("EMA", Some(JStr("AAPL")), "daily", JObj(<<Pair("time_period", JNum(20))>>)),
     UpdateEvent("SMA", Some(JStr("AAPL")), "daily", JObj(<<Pair("time_period", JNum(50))>>)),
     UpdateEvent("SMA", None, "daily", JObj(<<Pair("time_period", JNum(20))>>))}

\* Evaluation cycles the model runs.
MaxEvalCycles == 1

\* What can go wrong with the action-required stream during a cycle: the
\* client is not ready, the first append of the cycle throws.
EvalFaults == {"none", "streamNotReady", "streamAppend"}

IdleEval ==
    /\ activeStrategies = {}
    /\ actStream = <<>>
    /\ evalCycles = 0
    /\ lastEval = [kind |-> "none"]

InitEval == IdleEval

\* updateStrategy(strategyId, { isActive })
updateStrategy ==
    /\ \E strategyId \in StrategyIds, isActive \in BOOLEAN :
          /\ (strategyId \in activeStrategies) # isActive
          /\ activeStrategies' = IF isActive THEN activeStrategies \cup {strategyId}
                                 ELSE activeStrategies \ {strategyId}
    /\ UNCHANGED <<actStream, evalCycles, lastEval, cache>>

\* A refresh task stores a fetched series for a Condition's indicator.
CacheIndicator ==
    /\ \E i \in DOMAIN EvalConds, data \in EvalSeries :
          /\ cache' = setCachedIndicatorData(cache, now, ConditionKeyOf[EvalConds[i].id],
                         data, MetaData, TtlSeconds(OptStr(EvalConds[i].interval)))
          /\ cache' # cache
    /\ UNCHANGED <<activeStrategies, actStream, evalCycles, lastEval>>

\* The evaluation consumer calls evaluateStrategiesForIndicator for an event.
Evaluate ==
    /\ evalCycles < MaxEvalCycles
    /\ \E indicatorUpdatePayload \in EvalPayloads, fault \in EvalFaults :
          LET r == evaluateStrategiesForIndicator(actStream, indicatorUpdatePayload,
                       Database(activeStrategies), ConditionKeyOf, cache, now,
                       fault # "streamNotReady", fault # "streamAppend")
          IN  /\ actStream' = r.stream
              /\ lastEval' = [kind |-> "eval", payload |-> indicatorUpdatePayload,
                              relevant |-> r.relevant, calls |-> r.calls,
                              fault |-> fault]
    /\ evalCycles' = evalCycles + 1
    /\ UNCHANGED <<activeStrategies, cache>>

(***************************************************************************)
(* Requests for different indicators against one cache: the on-demand      *)
(* helpers and the scheduler's refresh tasks call getTechnicalIndicator.   *)
(***************************************************************************)
InitRequests == IdleFetch

\* A helper or a refresh task calls getTechnicalIndicator; the provider
\* answers with the series of the indicator asked for.
RequestIndicator ==
    /\ fetchCalls < MaxFetchCalls
    /\ \E params \in IndicatorRequests, forceRefresh \in BOOLEAN :
          LET r == getTechnicalIndicator(cache, indStream, now, params, forceRefresh,
                       ResponseFor(params), TRUE, TRUE, TRUE)
          IN  /\ cache' = r.cache
              /\ indStream' = r.stream
              /\ providerCalls' = providerCalls + (IF r.contacted THEN 1 ELSE 0)
              /\ lastCall' = [kind |-> "request", params |-> params,
                              forceRefresh |-> forceRefresh,
                              contacted |-> r.contacted, result |-> r.result]
    /\ fetchCalls' = fetchCalls + 1
    /\ UNCHANGED <<now, clockSteps>>

(***************************************************************************)
(* Evaluation with dependencies that can be missing: three active          *)
(* strategies on the SMA of AAPL, one comparing with the EMA of another    *)
(* Condition row, one comparing with a fixed value, one whose target row   *)
(* is gone by the time findUnique looks for it.                            *)
(***************************************************************************)
DepConds ==
    <<CondRow("d1", "SMA", Some("AAPL"), Some("daily"), <<Pair("time_period", JNum(20))>>,
              None, "GREATER_THAN", None, Some("d2")),
      CondRow("d2", "EMA", Some("AAPL"), Some("daily"), <<Pair("time_period", JNum(20))>>,
              None, "LESS_THAN", Some(150 * Scale), None),
      CondRow("d3", "SMA", Some("AAPL"), Some("daily"), <<Pair("time_period", JNum(20))>>,
              None, "GREATER_THAN", Some(150 * Scale), None),
      CondRow("d4", "SMA", Some("AAPL"), Some("daily"), <<Pair("time_period", JNum(20))>>,
              None, "GREATER_THAN", None, Some("d9"))>>

\* M1: d1 (SMA above the EMA of d2), action e1.  M2: d3, action e2.
\* M3: d4 (target row missing), action e3.
DepBlocks ==
    <<BlockRow("m10", "M1", None, None),
      BlockRow("m11", "M1", Some("d1"), Some("e1")),
      BlockRow("m20", "M2", None, None),
      BlockRow("m21", "M2", Some("d3"), Some("e2")),
      BlockRow("m30", "M3", None, None),
      BlockRow("m31", "M3", Some("d4"), Some("e3"))>>

DepActions ==
    <<ActionRow("e1", "BUY", JObj(<<Pair("symbol", JStr("AAPL"))>>)),
      ActionRow("e2", "SELL", JObj(<<Pair("symbol", JStr("AAPL"))>>)),
      ActionRow("e3", "NOTIFY", JObj(<<>>))>>

DepStrategyIds == {"M1", "M2", "M3"}

DepDatabase(active) ==
    [conditions |-> DepConds, blocks |-> DepBlocks, actions |-> DepActions,
     active |-> active]

\* generateCacheKey(conditionCacheKeyParams) of every Condition row, tabulated.
DepKeyOf ==
    [id \in {DepConds[i].id : i \in DOMAIN DepConds} |->
        generateCacheKey(ConditionCacheKeyParams(
            DepConds[CHOOSE i \in DOMAIN DepConds : DepConds[i].id = id]))]

\* A series whose latest point holds no number.
SeriesBlank == JObj(<<SeriesPoint("2024-01-03", "SMA", JStr("None")),
                      SeriesPoint("2024-01-02", "SMA", JStr("149.0000"))>>)
DepSeries == {SeriesRise, SeriesFall, SeriesBlank}

DepPayloads ==
    {UpdateEvent("SMA", Some(JStr("AAPL")), "daily", JObj(<<Pair("time_period", JNum(20))>>)),
     UpdateEvent("EMA", Some(JStr("AAPL")), "daily", JObj(<<Pair("time_period", JNum(20))>>))}

InitDep ==
    /\ activeStrategies = DepStrategyIds
    /\ actStream = <<>>
    /\ evalCycles = 0
    /\ lastEval = [kind |-> "none"]

\* A refresh task stores a fetched series for a Condition's indicator.
CacheDependency ==
    /\ \E i \in DOMAIN DepConds, data \in DepSeries :
          /\ cache' = setCachedIndicatorData(cache, now, DepKeyOf[DepConds[i].id],
                         data, MetaData, TtlSeconds(OptStr(DepConds[i].interval)))
          /\ cache' # cache
    /\ UNCHANGED <<activeStrategies, actStream, evalCycles, lastEval>>

\* The evaluation consumer calls evaluateStrategiesForIndicator for an event.
EvaluateDependents ==
    /\ evalCycles < MaxEvalCycles
    /\ \E indicatorUpdatePayload \in DepPayloads, fault \in EvalFaults :
          LET r == evaluateStrategiesForIndicator(actStream, indicatorUpdatePayload,
                       DepDatabase(activeStrategies), DepKeyOf, cache, now,
                       fault # "streamNotReady", fault # "streamAppend")
          IN  /\ actStream' = r.stream
              /\ lastEval' = [kind |-> "eval", payload |-> indicatorUpdatePayload,
                              relevant |-> r.relevant, calls |-> r.calls,
                              fault |-> fault]
    /\ evalCycles' = evalCycles + 1
    /\ UNCHANGED <<activeStrategies, cache>>

(***************************************************************************)
(* Repeated evaluation cycles over crossover Conditions: two active        *)
(* strategies on the SMA of AAPL, one waiting for it to cross above 150,   *)
(* one for it to cross below 150.                                          *)
(***************************************************************************)
CrossConds ==
    <<CondRow("x1", "SMA", Some("AAPL"), Some("daily"), <<Pair("time_period", JNum(20))>>,
              None, "CROSSES_ABOVE", Some(150 * Scale), None),
      CondRow("x2", "SMA", Some("AAPL"), Some("daily"), <<Pair("time_period", JNum(20))>>,
              None, "CROSSES_BELOW", Some(150 * Scale), None)>>

CrossDatabase ==
    [conditions |-> CrossConds,
     blocks |-> <<BlockRow("k10", "X1", None, None),
                  BlockRow("k11", "X1", Some("x1"), Some("g1")),
                  BlockRow("k20", "X2", None, None),
                  BlockRow("k21", "X2", Some("x2"), Some("g2"))>>,
     actions |-> <<ActionRow("g1", "BUY", JObj(<<Pair("symbol", JStr("AAPL"))>>)),
                   ActionRow("g2", "SELL", JObj(<<Pair("symbol", JStr("AAPL"))>>))>>,
     active |-> {"X1", "X2"}]

\* generateCacheKey(conditionCacheKeyParams) of the two rows, tabulated.
CrossKeyOf ==
    [id \in {"x1", "x2"} |->
        generateCacheKey(ConditionCacheKeyParams(
            CrossConds[CHOOSE i \in DOMAIN CrossConds : CrossConds[i].id = id]))]

\* Evaluation cycles run, and writes made to the cached series.
MaxCrossCycles == 3
MaxCrossWrites == 3

IdleCross ==
    /\ crossLog = <<>>
    /\ crossWrites = 0

InitCross == IdleCross

\* The refresh task stores the series it fetched for the SMA.
CacheCross ==
    /\ crossWrites < MaxCrossWrites
    /\ \E data \in EvalSeries :
          cache' = setCachedIndicatorData(cache, now, CrossKeyOf["x1"], data, MetaData,
                                          TtlSeconds(Some(JStr("daily"))))
    /\ crossWrites' = crossWrites + 1
    /\ UNCHANGED <<crossLog, fetchRest>>

\* The evaluation consumer calls evaluateStrategiesForIndicator for an update
\* of the SMA; the cycle is logged with the strategies whose actions it
\* published and the number of writes the cached series had seen.
EvaluateCross ==
    /\ Len(crossLog) < MaxCrossCycles
    /\ LET r == evaluateStrategiesForIndicator(<<>>,
                    UpdateEvent("SMA", Some(JStr("AAPL")), "daily",
                                JObj(<<Pair("time_period", JNum(20))>>)),
                    CrossDatabase, CrossKeyOf, cache, now, TRUE, TRUE)
       IN  crossLog' = Append(crossLog,
               [writes |-> crossWrites,
                met |-> {r.calls[i].strategyId : i \in DOMAIN r.calls}])
    /\ UNCHANGED <<crossWrites, fetchVars>>

(***************************************************************************)
(* Evaluation of Conditions that target one another: a1 (SMA) targets a2,  *)
(* a2 (EMA) targets a1, a3 (SMA) targets itself, a4 (EMA) targets a1,      *)
(* which targets a2, a5 (RSI) targets a4.  One active strategy per         *)
(* Condition.                                                              *)
(***************************************************************************)
ChainConds ==
    <<CondRow("a1", "SMA", Some("AAPL"), Some("daily"), <<Pair("time_period", JNum(20))>>,
              None, "GREATER_THAN", None, Some("a2")),
      CondRow("a2", "EMA", Some("AAPL"), Some("daily"), <<Pair("time_period", JNum(20))>>,
              None, "LESS_THAN", None, Some("a1")),
      CondRow("a3", "SMA", Some("AAPL"), Some("daily"), <<Pair("time_period", JNum(20))>>,
              None, "GREATER_THAN_OR_EQUAL", None, Some("a3")),
      CondRow("a4", "EMA", Some("AAPL"), Some("daily"), <<Pair("time_period", JNum(20))>>,
              None, "GREATER_THAN_OR_EQUAL", None, Some("a1")),
      CondRow("a5", "RSI", Some("AAPL"), Some("daily"), <<Pair("time_period", JNum(20))>>,
              None, "LESS_THAN", None, Some("a4"))>>

ChainBlocks ==
    <<BlockRow("n10", "N1", None, None), BlockRow("n11", "N1", Some("a1"), Some("h1")),
      BlockRow("n20", "N2", None, None), BlockRow("n21", "N2", Some("a2"), Some("h2")),
      BlockRow("n30", "N3", None, None), BlockRow("n31", "N3", Some("a3"), Some("h3")),
      BlockRow("n40", "N4", None, None), BlockRow("n41", "N4", Some("a4"), Some("h4")),
      BlockRow("n50", "N5", None, None), BlockRow("n51", "N5", Some("a5"), Some("h5"))>>

ChainDatabase ==
    [conditions |-> ChainConds,
     blocks |-> ChainBlocks,
     actions |-> <<ActionRow("h1", "BUY", JObj(<<>>)), ActionRow("h2", "SELL", JObj(<<>>)),
                   ActionRow("h3", "NOTIFY", JObj(<<>>)), ActionRow("h4", "NOTIFY", JObj(<<>>)),
                   ActionRow("h5", "NOTIFY", JObj(<<>>))>>,
     active |-> {"N1", "N2", "N3", "N4", "N5"}]

ChainPayloads ==
    {UpdateEvent(type, Some(JStr("AAPL")), "daily", JObj(<<Pair("time_period", JNum(20))>>)) :
        type \in {"SMA", "EMA", "RSI"}}

\* generateCacheKey(conditionCacheKeyParams) of every row, tabulated.
ChainKeyOf ==
    [id \in {ChainConds[i].id : i \in DOMAIN ChainConds} |->
        generateCacheKey(ConditionCacheKeyParams(
            ChainConds[CHOOSE i \in DOMAIN ChainConds : ChainConds[i].id = id]))]

IdleChain == chainOut = None

InitChain == IdleChain

\* A refresh task stores a fetched series for an indicator; the cycle
\* on record, which read the cache as it was, is dropped.
CacheChain ==
    /\ \E id \in {"a1", "a2", "a5"}, data \in DepSeries :
          /\ cache' = setCachedIndicatorData(cache, now, ChainKeyOf[id], data, MetaData,
                                             TtlSeconds(Some(JStr("daily"))))
          /\ cache' # cache
    /\ chainOut' = None
    /\ UNCHANGED fetchRest

\* The evaluation consumer calls evaluateStrategiesForIndicator for an update
\* of an indicator; the call returns.
EvaluateChain ==
    /\ \E indicatorUpdatePayload \in ChainPayloads :
          LET r == evaluateStrategiesForIndicator(<<>>, indicatorUpdatePayload,
                       ChainDatabase, ChainKeyOf, cache, now, TRUE, TRUE)
          IN  chainOut' = Some([relevant |-> {r.relevant[i] : i \in DOMAIN r.relevant},
                                met |-> {r.calls[i].strategyId : i \in DOMAIN r.calls}])
    /\ UNCHANGED fetchVars

(***************************************************************************)
(* utils/redisClient: initRedis (userRoutes.ts, lines 26-47), called       *)
(* without await when redisStream.ts is loaded (line 5), and awaited by    *)
(* startScheduler (technicalStrategySource.ts, line 102) and by            *)
(* getTechnicalIndicator (technicalIndicators.ts, line 36).                *)
(***************************************************************************)
InitCallers == {"redisStream", "startScheduler", "getTechnicalIndicator"}

\* Calls of initRedis each caller makes.
MaxInitCalls == 2

\* clientState: "unset" while the module variable redisClient is undefined,
\* then the state of the connection of the client it holds.
IdleRedis ==
    /\ clientState = "unset"
    /\ initCalls = [c \in InitCallers |-> [pc |-> "idle", clientAt |-> "none", n |-> 0]]
    /\ discoveryTask = "none"

InitRedis == IdleRedis

\* startScheduler after `await initRedis()`: cron.schedule registers the
\* discovery task; discoveryTask keeps the state the client was in then.
RegisterDiscovery(callers, state) ==
    IF "startScheduler" \in callers /\ discoveryTask = "none" THEN state ELSE discoveryTask

\* initRedis(): if (!redisClient) { redisClient = createClient(...);
\* await redisClient.connect() }, else nothing: the promise resolves as is.
initRedis(caller) ==
    /\ initCalls[caller].pc = "idle"
    /\ initCalls[caller].n < MaxInitCalls
    /\ IF clientState = "unset"
       THEN /\ clientState' = "connecting"
            /\ initCalls' = [initCalls EXCEPT ![caller].pc = "awaiting",
                                              ![caller].n = @ + 1]
            /\ UNCHANGED discoveryTask
       ELSE /\ initCalls' = [initCalls EXCEPT ![caller].pc = "resolved",
                                              ![caller].clientAt = clientState,
                                              ![caller].n = @ + 1]
            /\ discoveryTask' = RegisterDiscovery({caller}, clientState)
            /\ UNCHANGED clientState

\* redisClient.connect() resolves: the call that awaits it resolves.
ConnectResolves ==
    /\ clientState = "connecting"
    /\ clientState' = "connected"
    /\ initCalls' = [c \in InitCallers |->
                        IF initCalls[c].pc = "awaiting"
                        THEN [initCalls[c] EXCEPT !.pc = "resolved", !.clientAt = "connected"]
                        ELSE initCalls[c]]
    /\ discoveryTask' = RegisterDiscovery({c \in InitCallers : initCalls[c].pc = "awaiting"},
                                          "connected")

\* redisClient.connect() rejects: the call that awaits it rejects; the
\* module variable keeps the client.
ConnectRejects ==
    /\ clientState = "connecting"
    /\ clientState' = "failed"
    /\ initCalls' = [c \in InitCallers |->
                        IF initCalls[c].pc = "awaiting"
                        THEN [initCalls[c] EXCEPT !.pc = "rejected", !.clientAt = "failed"]
                        ELSE initCalls[c]]
    /\ UNCHANGED discoveryTask

\* The caller goes on after its call has settled.
Settled(caller) ==
    /\ initCalls[caller].pc \in {"resolved", "rejected"}
    /\ initCalls' = [initCalls EXCEPT ![caller].pc = "idle", ![caller].clientAt = "none"]
    /\ UNCHANGED <<clientState, discoveryTask>>

(***************************************************************************)
(* Evaluation cycles and the cache entry of the event that triggers them:  *)
(* strategy T1 holds t1 (SMA above 150) and t2 (EMA below 150), strategy   *)
(* T2 holds t3 (SMA above 150, dataSource alphavantage).                   *)
(***************************************************************************)
TriggerConds ==
    <<CondRow("t1", "SMA", Some("AAPL"), Some("daily"), <<Pair("time_period", JNum(20))>>,
              None, "GREATER_THAN", Some(150 * Scale), None),
      CondRow("t2", "EMA", Some("AAPL"), Some("daily"), <<Pair("time_period", JNum(20))>>,
              None, "LESS_THAN", Some(150 * Scale), None),
      CondRow("t3", "SMA", Some("AAPL"), Some("daily"), <<Pair("time_period", JNum(20))>>,
              Some("alphavantage"), "GREATER_THAN", Some(150 * Scale), None)>>

TriggerBlocks ==
    <<BlockRow("q10", "T1", None, None),
      BlockRow("q11", "T1", Some("t1"), Some("u1")),
      BlockRow("q12", "T1", Some("t2"), None),
      BlockRow("q20", "T2", None, None),
      BlockRow("q21", "T2", Some("t3"), Some("u2"))>>

TriggerDatabase ==
    [conditions |-> TriggerConds,
     blocks |-> TriggerBlocks,
     actions |-> <<ActionRow("u1", "BUY", JObj(<<>>)), ActionRow("u2", "SELL", JObj(<<>>))>>,
     active |-> {"T1", "T2"}]

\* generateCacheKey(conditionCacheKeyParams) of every row, tabulated.
TriggerKeyOf ==
    [id \in {TriggerConds[i].id : i \in DOMAIN TriggerConds} |->
        generateCacheKey(ConditionCacheKeyParams(
            TriggerConds[CHOOSE i \in DOMAIN TriggerConds : TriggerConds[i].id = id]))]

\* The event published after the indicator of a row was fetched and cached:
\* it carries the fingerprint the entry was stored under.
TriggerPayload(id) ==
    LET cond == TriggerConds[CHOOSE i \in DOMAIN TriggerConds : TriggerConds[i].id = id]
    IN  JObj(<<Pair("cacheKey", JStr(TriggerKeyOf[id])),
               Pair("indicatorType", JStr(cond.indicatorType)),
               Pair("symbol", JStr(Get(cond.symbol))),
               Pair("interval", JStr(Get(cond.interval))),
               Pair("parameters", JObj(cond.parameters)),
               Pair("fetchTime", JStr("0"))>>)

IdleTrigger == trigOut = None

InitTrigger == IdleTrigger

\* A refresh task stores a fetched series under the fingerprint of a row;
\* the cycle on record, which read the cache as it was, is dropped.
CacheTrigger ==
    /\ \E id \in DOMAIN TriggerKeyOf, data \in DepSeries :
          /\ cache' = setCachedIndicatorData(cache, now, TriggerKeyOf[id], data, MetaData,
                                             TtlSeconds(Some(JStr("daily"))))
          /\ cache' # cache
    /\ trigOut' = None
    /\ UNCHANGED fetchRest

\* The evaluation consumer calls evaluateStrategiesForIndicator for the event
\* of an indicator whose entry is in the cache.
EvaluateTrigger ==
    /\ \E id \in DOMAIN TriggerKeyOf :
          /\ IsSome(getCachedIndicatorEntry(cache, now, TriggerKeyOf[id]))
          /\ LET r == evaluateStrategiesForIndicator(<<>>, TriggerPayload(id),
                          TriggerDatabase, TriggerKeyOf, cache, now, TRUE, TRUE)
             IN  trigOut' = Some([cacheKey |-> TriggerKeyOf[id],
                                  relevant |-> {r.relevant[i] : i \in DOMAIN r.relevant},
                                  met |-> {r.calls[i].strategyId : i \in DOMAIN r.calls}])
    /\ UNCHANGED fetchVars

(***************************************************************************)
(* The consumers: startConsumer (userRoutes.ts, lines 383-481) on          *)
(* indicatorUpdates / evaluation_group and startActionConsumer             *)
(* (actionService/consumer.ts) on actionRequired / action_group.           *)
(***************************************************************************)
\* The instances of one group; each has its own consumer name (process.pid).
Instances == {"p1", "p2"}

\* COUNT of xReadGroup.
ReadCount == 10

\* Entries the model appends to the stream.
MaxMessages == 2

\* An entry as publishIndicatorUpdate / publishActionRequired writes it.
IndicatorMessage ==
    IndicatorStreamData(
        UpdatePayload(FetchKeyOf[IndicatorOf(SchedConds[1])], IndicatorOf(SchedConds[1]),
                      Some(JStr("2024-01-03")), 0).o, 1)
ActionMessage ==
    ActionStreamData(
        ActionRequiredPayload(EvalActions[1], "S1",
            UpdateEvent("SMA", Some(JStr("AAPL")), "daily",
                        JObj(<<Pair("time_period", JNum(20))>>))).o, 1)

\* The same entry with another text in its parameters field.
WithParameters(message, text) ==
    [i \in DOMAIN message |->
        IF message[i].k = "parameters" THEN Pair("parameters", text) ELSE message[i]]

\* What a producer can append: a well-formed entry, one whose parameters
\* text is cut off, one whose parameters text is the empty string, and an
\* entry that reaches the consumer without fields.
LogMessages(kind) ==
    LET good == IF kind = "evaluation" THEN IndicatorMessage ELSE ActionMessage
    IN  {good,
         WithParameters(good, <<TLBrace, TStr("time_period"), TColon>>),
         WithParameters(good, <<>>),
         <<>>}

\* !payload || Object.keys(payload).length === 0
IsEmptyPayload(message) == message = <<>>

\* payload.parameters && typeof payload.parameters === 'string': a field of
\* a stream entry is a string, truthy when it is not empty.
HasParametersText(message) == StreamField(message, "parameters") # <<>>

\* JSON.parse(payload.parameters) throws.
ParametersUnparseable(message) ==
    LET pv == JSONparse(StreamField(message, "parameters"))
    IN  ~pv.ok

\* The entries of the model on which the consumer's
\* try { JSON.parse(payload.parameters) } lands in its catch, tabulated.
ParseErrorMessages ==
    {message \in LogMessages("evaluation") \cup LogMessages("action") :
        HasParametersText(message) /\ ParametersUnparseable(message)}

\* The parameters text of the entry cannot be parsed as JSON (the empty
\* string included), or the entry has no fields.
Malformed(message) == IsEmptyPayload(message) \/ ParametersUnparseable(message)

\* One xAck in the course of handling: ok says whether it went through.
\* h = [processed, threw, logged, ackCalls, acked, continues].
Skipped(ackOk) ==
    [processed |-> FALSE, threw |-> FALSE, logged |-> FALSE, ackCalls |-> 1,
     acked |-> ackOk, continues |-> ackOk]

\* A variant of the catch block that does not acknowledge.
CatchBlock_NoAck(processed, threw, ackCalls, ackOk) ==
    [processed |-> processed, threw |-> threw, logged |-> TRUE, ackCalls |-> ackCalls,
     acked |-> FALSE, continues |-> TRUE]

\* catch (processingError) { console.error(...); await redisClient.xAck(...) }
\* ackCalls: the xAck calls made before; an xAck that throws here ends the
\* pass over the batch in the outer catch.
CatchBlock(processed, threw, ackCalls, ackOk) ==
    [processed |-> processed, threw |-> threw, logged |-> TRUE, ackCalls |-> ackCalls + 1,
     acked |-> ackOk, continues |-> ackOk]

\* try { await process(payload); await redisClient.xAck(...) } catch ...
\* procOk: the evaluation / the hand-off returns; ackOk1, ackOk2: the first
\* and the second xAck issued for the message go through.
TryProcess(procOk, ackOk1, ackOk2) ==
    IF ~procOk THEN CatchBlock(TRUE, TRUE, 0, ackOk1)
    ELSE IF ackOk1
    THEN [processed |-> TRUE, threw |-> FALSE, logged |-> FALSE, ackCalls |-> 1,
          acked |-> TRUE, continues |-> TRUE]
    ELSE CatchBlock(TRUE, FALSE, 1, ackOk2)

\* The body of `for (const message of stream.messages)` of startConsumer.
HandleEvaluationMessage(message, procOk, ackOk1, ackOk2) ==
    IF IsEmptyPayload(message) THEN Skipped(ackOk1)
    ELSE IF message \in ParseErrorMessages
    THEN Skipped(ackOk1)
    ELSE TryProcess(procOk, ackOk1, ackOk2)

\* The body of `for (const message of stream.messages)` of
\* startActionConsumer: the parameters are parsed inside the try block.
HandleActionMessage(message, procOk, ackOk1, ackOk2) ==
    IF IsEmptyPayload(message) THEN Skipped(ackOk1)
    ELSE IF message \in ParseErrorMessages
    THEN IF ackOk1 THEN Skipped(TRUE) ELSE CatchBlock(FALSE, FALSE, 1, ackOk2)
    ELSE TryProcess(procOk, ackOk1, ackOk2)

HandleMessage(kind, message, procOk, ackOk1, ackOk2) ==
    IF kind = "evaluation" THEN HandleEvaluationMessage(message, procOk, ackOk1, ackOk2)
    ELSE HandleActionMessage(message, procOk, ackOk1, ackOk2)

\* A variant that reads the stream from its start (id '0' of a plain read).
NewEntries_FromStart(stream, last) == [i \in 1..Len(stream) |-> i]

\* xReadGroup(group, consumer, { key, id: '>' }, { COUNT }): the ids of the
\* entries never delivered to a consumer of the group, at most COUNT.
NewEntries(stream, last) ==
    [i \in 1..(IF Len(stream) - last < ReadCount THEN Len(stream) - last ELSE ReadCount)
        |-> last + i]

SeqToSet(seq) == {seq[i] : i \in DOMAIN seq}

IdleLog ==
    /\ logKind = "off"
    /\ logStream = <<>>
    /\ lastDelivered = 0
    /\ pending = <<>>
    /\ consumers = [c \in Instances |-> [pc |-> "off", batch |-> <<>>, setup |-> "none"]]
    /\ deliveredTo = <<>>
    /\ deliveryCount = <<>>
    /\ processedBy = <<>>
    /\ processCount = <<>>
    /\ acked = {}
    /\ errLogged = {}
    /\ lastHandled = [kind |-> "none"]

\* No instance runs yet, none has set the group up.
InitLog ==
    /\ logKind \in {"evaluation", "action"}
    /\ logStream = <<>>
    /\ lastDelivered = 0
    /\ pending = <<>>
    /\ consumers = [c \in Instances |-> [pc |-> "off", batch |-> <<>>, setup |-> "none"]]
    /\ deliveredTo = <<>>
    /\ deliveryCount = <<>>
    /\ processedBy = <<>>
    /\ processCount = <<>>
    /\ acked = {}
    /\ errLogged = {}
    /\ lastHandled = [kind |-> "none"]

\* A producer appends an entry (xAdd).
AppendMessage ==
    /\ Len(logStream) < MaxMessages
    /\ \E message \in LogMessages(logKind) :
          logStream' = Append(logStream, message)
    /\ deliveredTo' = Append(deliveredTo, {})
    /\ deliveryCount' = Append(deliveryCount, 0)
    /\ processedBy' = Append(processedBy, {})
    /\ processCount' = Append(processCount, 0)
    /\ UNCHANGED <<logKind, lastDelivered, pending, consumers, acked, errLogged, lastHandled>>

\* What xGroupCreate can answer: it creates the group, or it throws an error
\* whose message is one of these.
SetupErrors == {"BUSYGROUP Consumer Group name already exists", "ECONNREFUSED"}

\* error.message.includes('BUSYGROUP')
IncludesBusyGroup(message) == message = "BUSYGROUP Consumer Group name already exists"

\* A variant whose catch block swallows every error.
setupConsumerGroup_SwallowAll(error) ==
    IF ~IsSome(error) THEN "created" ELSE "exists"

\* setupConsumerGroup / setupActionConsumerGroup: error is what xGroupCreate
\* threw, if it threw; "failed" stands for the rethrow.
setupConsumerGroup(error) ==
    IF ~IsSome(error) THEN "created"
    ELSE IF IncludesBusyGroup(Get(error)) THEN "exists"
    ELSE "failed"

\* The group exists once an xGroupCreate has gone through.
GroupExists == \E c \in Instances : consumers[c].setup = "created"

\* startConsumer / startActionConsumer of an instance: the group is set up
\* and the loop is reached, or the setup error leaves the function.
StartInstance(c) ==
    /\ consumers[c].pc = "off"
    /\ \E error \in {None} \cup {Some(e) : e \in SetupErrors} :
          \* xGroupCreate creates the group exactly when there is none, and
          \* answers BUSYGROUP only when there is one
          /\ ~IsSome(error) => ~GroupExists
          /\ (IsSome(error) /\ IncludesBusyGroup(Get(error))) => GroupExists
          \* setup keeps what xGroupCreate answered
          /\ consumers' = [consumers EXCEPT ![c] =
                [pc |-> IF setupConsumerGroup(error) = "failed" THEN "failed" ELSE "reading",
                 batch |-> <<>>,
                 setup |-> IF IsSome(error) THEN Get(error) ELSE "created"]]
    /\ UNCHANGED <<logKind, logStream, lastDelivered, pending, deliveredTo, deliveryCount,
                   processedBy, processCount, acked, errLogged, lastHandled>>

\* xReadGroup returns entries: they become pending for this consumer.
ReadGroup(c) ==
    /\ consumers[c].pc = "reading"
    /\ LET ids == NewEntries(logStream, lastDelivered)
       IN  /\ ids # <<>>
           /\ consumers' = [consumers EXCEPT ![c].pc = "handling", ![c].batch = ids]
           /\ lastDelivered' = ids[Len(ids)]
           /\ pending' = [i \in DOMAIN pending \cup SeqToSet(ids) |->
                             IF i \in SeqToSet(ids) THEN c ELSE pending[i]]
           /\ deliveredTo' = [i \in DOMAIN deliveredTo |->
                                 IF i \in SeqToSet(ids) THEN deliveredTo[i] \cup {c}
                                 ELSE deliveredTo[i]]
           /\ deliveryCount' = [i \in DOMAIN deliveryCount |->
                                   IF i \in SeqToSet(ids) THEN deliveryCount[i] + 1
                                   ELSE deliveryCount[i]]
    /\ UNCHANGED <<logKind, logStream, processedBy, processCount, acked, errLogged,
                   lastHandled>>

\* One pass of the loop over the messages of the batch.
Handle(c) ==
    /\ consumers[c].pc = "handling"
    /\ consumers[c].batch # <<>>
    /\ \E procOk, ackOk1, ackOk2 \in BOOLEAN :
          LET id == Head(consumers[c].batch)
              h == HandleMessage(logKind, logStream[id], procOk, ackOk1, ackOk2)
              rest == IF h.continues THEN Tail(consumers[c].batch) ELSE <<>>
          IN  /\ consumers' = [consumers EXCEPT
                     ![c].pc = IF rest = <<>> THEN "reading" ELSE "handling",
                     ![c].batch = rest]
              /\ processedBy' = [processedBy EXCEPT ![id] =
                     IF h.processed THEN @ \cup {c} ELSE @]
              /\ processCount' = [processCount EXCEPT ![id] =
                     IF h.processed THEN @ + 1 ELSE @]
              /\ acked' = IF h.acked THEN acked \cup {id} ELSE acked
              /\ pending' = IF h.acked THEN [i \in DOMAIN pending \ {id} |-> pending[i]]
                            ELSE pending
              /\ errLogged' = IF h.logged THEN errLogged \cup {id} ELSE errLogged
              /\ lastHandled' = [kind |-> "handled", consumer |-> c, id |-> id,
                                 processed |-> h.processed, threw |-> h.threw,
                                 firstAckOk |-> ackOk1,
                                 ackCalls |-> h.ackCalls, acked |-> h.acked,
                                 continues |-> h.continues,
                                 next |-> IF rest = <<>> THEN 0 ELSE Head(rest)]
    /\ UNCHANGED <<logKind, logStream, lastDelivered, deliveredTo, deliveryCount>>

\* The process of an instance dies; what it had read stays pending.
Crash(c) ==
    /\ consumers[c].pc \in {"reading", "handling"}
    /\ consumers' = [consumers EXCEPT ![c].pc = "crashed"]
    /\ UNCHANGED <<logKind, logStream, lastDelivered, pending, deliveredTo, deliveryCount,
                   processedBy, processCount, acked, errLogged, lastHandled>>

(***************************************************************************)
(* The pipeline: getTechnicalIndicator publishes into indicatorUpdates and *)
(* an instance of startConsumer (userRoutes.ts, lines 407-481) evaluates   *)
(* what it reads from that stream.                                         *)
(***************************************************************************)
\* const payload = message.message; payload.parameters = JSON.parse(
\* payload.parameters): every field of the entry is a string, the parameters
\* field (when it is not empty) is replaced by what it parses to.
ParsedPayload(message) ==
    JObj([i \in DOMAIN message |->
            IF message[i].k = "parameters" /\ message[i].v # <<>>
            THEN Pair("parameters", JSONparse(message[i].v).v)
            ELSE Pair(message[i].k, JStr(Flatten(message[i].v)))])

\* The instance reads the next entry of indicatorUpdates and runs the body
\* of its loop on it: skip an empty or unparseable entry, evaluate the
\* rest, acknowledge.
ConsumeUpdate ==
    /\ lastDelivered < Len(indStream)
    /\ \E fault \in EvalFaults, ackOk \in BOOLEAN :
          LET id == lastDelivered + 1
              message == indStream[id].message
              skip == \/ IsEmptyPayload(message)
                      \/ HasParametersText(message) /\ ParametersUnparseable(message)
              indicatorUpdatePayload == ParsedPayload(message)
              r == IF skip THEN [stream |-> actStream, calls |-> <<>>, relevant |-> <<>>]
                   ELSE evaluateStrategiesForIndicator(actStream, indicatorUpdatePayload,
                            Database(activeStrategies), ConditionKeyOf, cache, now,
                            fault # "streamNotReady", fault # "streamAppend")
          IN  /\ actStream' = r.stream
              /\ lastEval' = [kind |-> IF skip THEN "skipped" ELSE "eval",
                              payload |-> indicatorUpdatePayload,
                              relevant |-> r.relevant, calls |-> r.calls, fault |-> fault]
              /\ evalCycles' = IF skip THEN evalCycles ELSE evalCycles + 1
              /\ acked' = IF ackOk THEN acked \cup {id} ELSE acked
              /\ pending' = IF ackOk THEN pending
                            ELSE [i \in DOMAIN pending \cup {id} |->
                                     IF i = id THEN "p1" ELSE pending[i]]
    /\ lastDelivered' = lastDelivered + 1
    /\ UNCHANGED <<activeStrategies, logKind, logStream, consumers, deliveredTo,
                   deliveryCount, processedBy, processCount, errLogged, lastHandled>>

(***************************************************************************)
(* The matching step of evaluateStrategiesForIndicator on its own: one     *)
(* Condition row linked to a block of an active strategy, one indicator    *)
(* update.                                                                 *)
(***************************************************************************)
\* The Condition row with the given parameters.
MatchCondition(parameters) ==
    CondRow("cm", "SMA", Some("AAPL"), Some("daily"), parameters, None,
            "GREATER_THAN", Some(150 * Scale), None)

MatchDatabase(parameters) ==
    [conditions |-> <<MatchCondition(parameters)>>,
     blocks |-> <<BlockRow("bm0", "SM", None, None),
                  BlockRow("bm1", "SM", Some("cm"), None)>>,
     actions |-> <<>>,
     active |-> {"SM"}]

IdleMatch ==
    /\ matchIn = None
    /\ matchOut = None

InitMatch ==
    /\ matchIn \in {Some([parameters |-> p, type |-> type, symbol |-> symbol,
                           interval |-> interval, updatedParams |-> q]) :
                        p \in ParamObjects, q \in ParamObjects,
                        type \in {"SMA", "EMA"}, symbol \in {"AAPL", "MSFT"},
                        interval \in {"daily", "weekly"}}
    /\ matchOut = None

\* evaluateStrategiesForIndicator(payload): the condition is matched when its
\* strategy is among the relevant ones of the cycle.
MatchUpdate ==
    /\ matchIn # None
    /\ matchOut = None
    /\ LET in == Get(matchIn)
           r == evaluateStrategiesForIndicator(<<>>,
                    UpdateEvent(in.type, Some(JStr(in.symbol)), in.interval,
                                JObj(in.updatedParams)),
                    MatchDatabase(in.parameters), [id \in {"cm"} |-> "indicator:cm"],
                    <<>>, 0, TRUE, TRUE)
       IN  matchOut' = Some(r.relevant # <<>>)
    /\ UNCHANGED matchIn

(***************************************************************************)
(* The freshness cache on its own: entries are put under two keys, a value *)
(* that is not JSON gets stored under a key, time passes, entries are      *)
(* read.                                                                   *)
(***************************************************************************)
TripKeys == {"indicator:indicatorType:SMA", "indicator:indicatorType:EMA"}
TripPayloads == {SeriesRise, SeriesFall}
TripMetadata == {MetaData, JObj(<<>>)}
TripTtls == {60 * 5, 300 * 2}

\* A stored string that JSON.parse rejects: {"data"
UnparseableText == <<TLBrace, TStr("data")>>

\* Writes to the cache the model runs.
MaxCacheOps == 2

IdleTrip ==
    /\ puts = <<>>
    /\ lastGet = [kind |-> "none"]
    /\ cacheOps = 0

InitTrip == IdleFetch /\ IdleTrip

\* The last write under key becomes w.
Written(key, w) ==
    [k \in DOMAIN puts \cup {key} |-> IF k = key THEN w ELSE puts[k]]

\* setCachedIndicatorData(key, data, metadata, ttlSeconds)
PutEntry ==
    /\ cacheOps < MaxCacheOps
    /\ cacheOps' = cacheOps + 1
    /\ \E key \in TripKeys, data \in TripPayloads, metadata \in TripMetadata,
          ttlSeconds \in TripTtls :
          /\ cache' = setCachedIndicatorData(cache, now, key, data, metadata, ttlSeconds)
          /\ puts' = Written(key, [kind |-> "put", data |-> data, metadata |-> metadata,
                                   at |-> now, ttl |-> ttlSeconds])
    /\ UNCHANGED <<now, clockSteps, lastGet>>

\* Something else stores a value that is not JSON under a key of the cache.
StoreUnparseable ==
    /\ cacheOps < MaxCacheOps
    /\ cacheOps' = cacheOps + 1
    /\ \E key \in TripKeys, ttlSeconds \in TripTtls :
          /\ cache' = [k \in DOMAIN cache \cup {key} |->
                          IF k = key
                          THEN [value |-> UnparseableText, expireAt |-> now + ttlSeconds]
                          ELSE cache[k]]
          /\ puts' = Written(key, [kind |-> "unparseable", data |-> JNull,
                                   metadata |-> JNull, at |-> now, ttl |-> ttlSeconds])
    /\ UNCHANGED <<now, clockSteps, lastGet>>

\* getCachedIndicatorEntry(key); seen is the last write under the key.
GetEntry ==
    /\ \E key \in TripKeys :
          lastGet' = [kind |-> "get", key |-> key, at |-> now,
                      seen |-> IF key \in DOMAIN puts THEN Some(puts[key]) ELSE None,
                      result |-> getCachedIndicatorEntry(cache, now, key)]
    /\ UNCHANGED <<cache, now, clockSteps, puts, cacheOps>>

(***************************************************************************)
(* The TTL of getTechnicalIndicator on its own: params.interval of two     *)
(* requests and the TTL chosen for each.                                   *)
(***************************************************************************)
\* params.interval: the tiers of the TTL ladder, other intervals of the
\* provider, the empty string and a missing interval.
TtlIntervals ==
    {None} \cup {Some(JStr(i)) : i \in {"", "1min", "5min", "15min", "30min", "60min",
                                        "daily", "weekly", "monthly"}}

IdleTtl ==
    /\ ttlIn = None
    /\ ttlOut = None

InitTtl ==
    /\ ttlIn \in {Some(<<a, b>>) : a \in TtlIntervals, b \in TtlIntervals}
    /\ ttlOut = None

\* let ttlSeconds = 86400; if (params.interval === ...) for both requests.
ChooseTtl ==
    /\ ttlIn # None
    /\ ttlOut = None
    /\ ttlOut' = Some(<<TtlSeconds(Get(ttlIn)[1]), TtlSeconds(Get(ttlIn)[2])>>)
    /\ UNCHANGED ttlIn

(***************************************************************************)
(* evaluateSingleCondition on its own: a Condition with a fixed target     *)
(* value, evaluated for every operator of the enum.                        *)
(***************************************************************************)
\* enum Operator
Operators ==
    {"EQUALS", "NOT_EQUALS", "GREATER_THAN", "LESS_THAN", "GREATER_THAN_OR_EQUAL",
     "LESS_THAN_OR_EQUAL", "CROSSES_ABOVE", "CROSSES_BELOW"}

\* The target value 10 and the values around it, in units of 1/Scale:
\* 9, 10 - 0.001, 10 - 0.0001, ..., 10 + 0.00005, ..., 10.5, 11.
CompareTarget == 10 * Scale
CompareValues ==
    {CompareTarget + d : d \in {0 - Scale, -100, -11, -10, -9, -5, 0, 5, 9, 10, 11, 100,
                                50000, Scale}}

\* The Condition row handed to evaluateSingleCondition.
CompareCondition(operator, target) ==
    CondRow("cx", "SMA", Some("AAPL"), Some("daily"), <<>>, None, operator, Some(target), None)

IdleCompare ==
    /\ cmpIn = None
    /\ cmpOut = None

InitCompare ==
    /\ cmpIn \in {Some([currentValue |-> cur, previousValue |-> prev, target |-> CompareTarget]) :
                     cur \in CompareValues,
                     prev \in {None} \cup {Some(v) : v \in CompareValues}}
    /\ cmpOut = None

\* evaluateSingleCondition(condition, currentValue, previousValue) for the
\* condition with each operator.
EvaluateSingle ==
    /\ cmpIn # None
    /\ cmpOut = None
    /\ cmpOut' = Some([operator \in Operators |->
                        evaluateSingleCondition(
                            CompareCondition(operator, Get(cmpIn).target),
                            Get(cmpIn).currentValue, Get(cmpIn).previousValue,
                            <<>>, <<>>, <<>>, 0)])
    /\ UNCHANGED cmpIn

(***************************************************************************)
(* The strategy API: strategyController.ts and strategyBlockController.ts  *)
(* over the tables of schema.prisma.  A table is a function from the ids   *)
(* of its rows; ids are handed out in increasing order and never reused.   *)
(***************************************************************************)
\* Rows the model lets the API create.
MaxStrategies == 2
MaxBlocks == 3
MaxConditions == 1
MaxActions == 1

StrategyPool == 1..MaxStrategies
BlockPool == 1..MaxBlocks
ConditionPool == 1..MaxConditions
ActionPool == 1..MaxActions

\* The smallest id of the pool that was never handed out (0 when exhausted);
\* used is the set of ids handed out so far.
FreshId(pool, used) ==
    IF pool \ used = {} THEN 0
    ELSE CHOOSE i \in pool \ used : \A j \in pool \ used : i <= j

\* f without the rows in gone.
Without(f, gone) == [i \in DOMAIN f \ gone |-> f[i]]
\* f with the row id |-> row.
WithRow(f, id, row) == [i \in DOMAIN f \cup {id} |-> IF i = id THEN row ELSE f[i]]

RECURSIVE CascadeFrom(_, _)
\* parent ... onDelete: Cascade: the blocks in gone and every block below
\* one of them.
CascadeFrom(bs, gone) ==
    LET next == gone \cup {b \in DOMAIN bs :
                              bs[b].parentId # None /\ Get(bs[b].parentId) \in gone}
    IN  IF next = gone THEN gone ELSE CascadeFrom(bs, next)

\* A variant of the block-to-row relation that deletes the linked row with
\* the block.
LinkedRowsAfterDelete_Cascade(rows, bs, gone, field) ==
    Without(rows, {Get(bs[b][field]) : b \in {x \in gone : bs[x][field] # None}})

\* condition / action ... onDelete: SetNull on StrategyBlock: the relation
\* acts on the block when the row goes, a deleted block leaves the row alone.
LinkedRowsAfterDelete(rows, bs, gone, field) == rows

\* rootBlock ... onDelete: SetNull on Strategy.
UnlinkRoots(ss, gone) ==
    [s \in DOMAIN ss |->
        IF ss[s].rootBlockId # None /\ Get(ss[s].rootBlockId) \in gone
        THEN [ss[s] EXCEPT !.rootBlockId = None] ELSE ss[s]]

IdleCrud ==
    /\ strategyTable = <<>>
    /\ blockTable = <<>>
    /\ conditionTable = <<>>
    /\ actionTable = <<>>
    /\ usedIds = [s |-> {}, b |-> {}, c |-> {}, a |-> {}]
    /\ lastRequest = [op |-> "none", status |-> 0, gone |-> {}]

InitCrud == IdleCrud

\* What a request that wrote left behind; gone: the blocks a deletion removed.
Answer(op, status, gone) == [op |-> op, status |-> status, gone |-> gone]

\* POST /strategies for an existing user: the strategy, its ROOT block and
\* the link between them are written in one transaction.
createStrategy ==
    LET id == FreshId(StrategyPool, usedIds.s)
        rootId == FreshId(BlockPool, usedIds.b)
    IN  /\ id # 0 /\ rootId # 0
        /\ strategyTable' = WithRow(strategyTable, id, [isActive |-> FALSE, rootBlockId |-> Some(rootId)])
        /\ blockTable' = WithRow(blockTable, rootId,
                        [strategyId |-> id, blockType |-> "ROOT", parentId |-> None,
                         conditionId |-> None, actionId |-> None])
        /\ usedIds' = [usedIds EXCEPT !.s = @ \cup {id}, !.b = @ \cup {rootId}]
        /\ lastRequest' = Answer("createStrategy", 201, {})
        /\ UNCHANGED <<conditionTable, actionTable>>

\* DELETE /strategies/:strategyId: the blocks go with the strategy
\* (strategy ... onDelete: Cascade).
deleteStrategy ==
    \E strategyId \in StrategyPool :
        IF strategyId \notin DOMAIN strategyTable
        THEN FALSE
        ELSE LET gone == CascadeFrom(blockTable, {b \in DOMAIN blockTable :
                                                  blockTable[b].strategyId = strategyId})
             IN  /\ strategyTable' = UnlinkRoots(Without(strategyTable, {strategyId}), gone)
                 /\ blockTable' = Without(blockTable, gone)
                 /\ conditionTable' = LinkedRowsAfterDelete(conditionTable, blockTable, gone, "conditionId")
                 /\ actionTable' = LinkedRowsAfterDelete(actionTable, blockTable, gone, "actionId")
                 /\ lastRequest' = Answer("deleteStrategy", 200, gone)
                 /\ UNCHANGED usedIds

\* What a request gives as conditionDetails: nothing, or the two target
\* columns of the Condition to create.
ConditionDetails ==
    {None} \cup
    {Some([targetValue |-> tv, targetIndicatorId |-> ti]) :
        tv \in {None, Some(150)}, ti \in {None} \cup {Some(c) : c \in ConditionPool}}

\* What a request gives as blockType: nothing, or a type of the enum.
BlockTypes == {None, Some("ROOT"), Some("CONDITION_IF")}

\* POST /strategies/:strategyId/blocks; a request that is answered with an
\* error writes nothing.
createStrategyBlock ==
    \E strategyId \in StrategyPool, blockType \in BlockTypes, hasParameters \in BOOLEAN,
       parentId \in {None} \cup {Some(b) : b \in BlockPool},
       conditionDetails \in ConditionDetails, actionDetails \in BOOLEAN :
        LET op == "createStrategyBlock"
            \* res.status(status).json({ error }); return
            rejected(status) == FALSE
            newCondition == FreshId(ConditionPool, usedIds.c)
            newAction == FreshId(ActionPool, usedIds.a)
            newBlock == FreshId(BlockPool, usedIds.b)
            \* the foreign key of targetIndicatorId aborts the transaction
            foreignKeyFails ==
                /\ conditionDetails # None
                /\ Get(conditionDetails).targetIndicatorId # None
                /\ Get(Get(conditionDetails).targetIndicatorId) \notin DOMAIN conditionTable
        IN  IF blockType = None \/ ~hasParameters THEN rejected(400)
            ELSE IF blockType = Some("ROOT") THEN rejected(400)
            ELSE IF strategyId \notin DOMAIN strategyTable THEN rejected(404)
            ELSE IF /\ parentId # None
                    /\ \/ Get(parentId) \notin DOMAIN blockTable
                       \/ blockTable[Get(parentId)].strategyId # strategyId
            THEN rejected(400)
            ELSE IF foreignKeyFails THEN rejected(500)
            ELSE /\ newBlock # 0
                 /\ conditionDetails # None => newCondition # 0
                 /\ actionDetails => newAction # 0
                 /\ conditionTable' = IF conditionDetails # None
                                  THEN WithRow(conditionTable, newCondition, Get(conditionDetails))
                                  ELSE conditionTable
                 /\ actionTable' = IF actionDetails THEN WithRow(actionTable, newAction, [order |-> 0])
                               ELSE actionTable
                 /\ blockTable' = WithRow(blockTable, newBlock,
                        [strategyId |-> strategyId, blockType |-> Get(blockType),
                         parentId |-> parentId,
                         conditionId |-> IF conditionDetails # None THEN Some(newCondition) ELSE None,
                         actionId |-> IF actionDetails THEN Some(newAction) ELSE None])
                 /\ usedIds' =
                        [usedIds EXCEPT !.b = @ \cup {newBlock},
                                        !.c = IF conditionDetails # None THEN @ \cup {newCondition} ELSE @,
                                        !.a = IF actionDetails THEN @ \cup {newAction} ELSE @]
                 /\ lastRequest' = Answer(op, 201, {})
                 /\ UNCHANGED strategyTable

\* PATCH /strategies/:strategyId/blocks/:blockId
updateStrategyBlock ==
    \* given: the request carries parentId (null or a block id)
    \E strategyId \in StrategyPool, blockId \in BlockPool, given \in BOOLEAN,
       parentId \in {None} \cup {Some(b) : b \in BlockPool} :
        LET op == "updateStrategyBlock"
            \* res.status(status).json({ error }); return
            rejected(status) == FALSE
        IN  IF ~given /\ parentId # None THEN FALSE
            \* an update that changes nothing
            ELSE IF blockId \in DOMAIN blockTable /\ (~given \/ parentId = blockTable[blockId].parentId)
            THEN FALSE
            ELSE IF blockId \notin DOMAIN blockTable \/ blockTable[blockId].strategyId # strategyId
            THEN rejected(404)
            ELSE IF /\ blockTable[blockId].blockType = "ROOT"
                    /\ (~given \/ parentId # blockTable[blockId].parentId)
            THEN rejected(400)
            ELSE IF /\ given /\ parentId # None
                    /\ parentId # blockTable[blockId].parentId
                    /\ \/ Get(parentId) \notin DOMAIN blockTable
                       \/ blockTable[Get(parentId)].strategyId # strategyId
            THEN rejected(400)
            ELSE /\ blockTable' = IF ~given THEN blockTable
                              ELSE [blockTable EXCEPT ![blockId].parentId = parentId]
                 /\ lastRequest' = Answer(op, 200, {})
                 /\ UNCHANGED <<strategyTable, conditionTable, actionTable, usedIds>>

\* The blocks of two strategies: the ROOT block of each, and one block
\* under the ROOT block of S1.
PatchBlocks ==
    [b \in {"b1", "b2", "b4"} |->
        [strategyId |-> IF b = "b4" THEN "S2" ELSE "S1",
         blockType |-> IF b \in {"b1", "b4"} THEN "ROOT" ELSE "CONDITION_IF",
         parentId |-> IF b = "b2" THEN Some("b1") ELSE None,
         parameters |-> "p0",
         order |-> 0]]

\* The bodies of the update requests: parameters and order are a value or
\* left out; parentId is left out (given = FALSE), null or a block id.
PatchBodies ==
    [parameters : {None, Some("p1")},
     order : {None, Some(1)},
     parentId : {[given |-> FALSE, value |-> None]}
                \cup {[given |-> TRUE, value |-> v] :
                         v \in {None} \cup {Some(b) : b \in {"b1", "b4", "bX"}}}]

\* parentId !== block.parentId: undefined is equal to no stored value.
ParentDiffers(body, block) == ~body.parentId.given \/ body.parentId.value # block.parentId

\* PATCH /strategies/:strategyId/blocks/:blockId, the whole handler: the
\* status of the answer and the table it leaves.
UpdateBlockOutcome(blocks, strategyId, blockId, body) ==
    LET rejected(status) == [status |-> status, blocks |-> blocks]
    IN  IF blockId \notin DOMAIN blocks \/ blocks[blockId].strategyId # strategyId
        THEN rejected(404)
        ELSE LET block == blocks[blockId]
             IN  IF block.blockType = "ROOT" /\ ParentDiffers(body, block)
                 THEN rejected(400)
                 ELSE IF /\ body.parentId.given /\ body.parentId.value # None
                         /\ ParentDiffers(body, block)
                         /\ \/ Get(body.parentId.value) \notin DOMAIN blocks
                            \/ blocks[Get(body.parentId.value)].strategyId # strategyId
                 THEN rejected(400)
                 ELSE [status |-> 200,
                       blocks |-> [blocks EXCEPT ![blockId] =
                           [block EXCEPT
                              !.parameters = IF IsSome(body.parameters)
                                             THEN Get(body.parameters) ELSE @,
                              !.parentId = IF body.parentId.given
                                           THEN body.parentId.value ELSE @,
                              !.order = IF IsSome(body.order) THEN Get(body.order) ELSE @]]]

\* The database holds the blocks of the two strategies; no request yet.
InitPatch ==
    /\ strategyTable = <<>>
    /\ blockTable = PatchBlocks
    /\ conditionTable = <<>>
    /\ actionTable = <<>>
    /\ usedIds = [s |-> {}, b |-> {}, c |-> {}, a |-> {}]
    /\ lastRequest = [op |-> "none", status |-> 0, gone |-> {}]

\* An update request is answered; the answer, the request and the row the
\* handler read are kept.
PatchBlock ==
    /\ \E strategyId \in {"S1", "S2"}, blockId \in DOMAIN PatchBlocks \cup {"bX"},
          body \in PatchBodies :
          LET r == UpdateBlockOutcome(blockTable, strategyId, blockId, body)
          IN  /\ blockTable' = r.blocks
              /\ lastRequest' =
                    [op |-> "updateStrategyBlock", status |-> r.status, gone |-> {},
                     strategyId |-> strategyId, blockId |-> blockId, body |-> body,
                     before |-> IF blockId \in DOMAIN blockTable
                                THEN Some(blockTable[blockId]) ELSE None]
    /\ UNCHANGED <<strategyTable, conditionTable, actionTable, usedIds>>

\* DELETE /strategies/:strategyId/blocks/:blockId
deleteStrategyBlock ==
    \E strategyId \in StrategyPool, blockId \in BlockPool :
        IF blockId \notin DOMAIN blockTable \/ blockTable[blockId].strategyId # strategyId
        THEN FALSE
        ELSE LET unlinked ==
                     IF /\ blockTable[blockId].blockType = "ROOT"
                        /\ strategyTable[strategyId].rootBlockId = Some(blockId)
                     THEN [strategyTable EXCEPT ![strategyId].rootBlockId = None]
                     ELSE strategyTable
                 gone == CascadeFrom(blockTable, {blockId})
             IN  /\ strategyTable' = UnlinkRoots(unlinked, gone)
                 /\ blockTable' = Without(blockTable, gone)
                 /\ conditionTable' = LinkedRowsAfterDelete(conditionTable, blockTable, gone, "conditionId")
                 /\ actionTable' = LinkedRowsAfterDelete(actionTable, blockTable, gone, "actionId")
                 /\ lastRequest' = Answer("deleteStrategyBlock", 204, gone)
                 /\ UNCHANGED usedIds

(***************************************************************************)
(* The specifications.                                                     *)
(***************************************************************************)
NextKey == GenerateKeys /\ UNCHANGED <<schedVars, fetchVars, evalVars, logVars, crudVars, cmpVars, ttlVars, tripVars, matchVars, crossVars, chainVars, initVars, srcVars, trigVars, tkVars>>

InitSpecKey == InitKey /\ IdleSched /\ IdleFetch /\ IdleEval /\ IdleLog /\ IdleCrud /\ IdleCompare /\ IdleTtl /\ IdleTrip /\ IdleMatch /\ IdleCross /\ IdleChain /\ IdleRedis /\ IdleSource /\ IdleTrigger /\ IdleTicks

SpecKey == InitSpecKey /\ [][NextKey]_vars

NextSched ==
    \/ SetActiveConds /\ UNCHANGED <<keyVars, fetchVars, evalVars, logVars, crudVars, cmpVars, ttlVars, tripVars, matchVars, crossVars, chainVars, initVars, srcVars, trigVars, tkVars>>
    \/ TickStart /\ UNCHANGED <<keyVars, fetchVars, evalVars, logVars, crudVars, cmpVars, ttlVars, tripVars, matchVars, crossVars, chainVars, initVars, srcVars, trigVars, tkVars>>
    \/ TickApply /\ UNCHANGED <<keyVars, fetchVars, evalVars, logVars, crudVars, cmpVars, ttlVars, tripVars, matchVars, crossVars, chainVars, initVars, srcVars, trigVars, tkVars>>
    \/ TickFail /\ UNCHANGED <<keyVars, fetchVars, evalVars, logVars, crudVars, cmpVars, ttlVars, tripVars, matchVars, crossVars, chainVars, initVars, srcVars, trigVars, tkVars>>
    \/ stopScheduler /\ UNCHANGED <<keyVars, fetchVars, evalVars, logVars, crudVars, cmpVars, ttlVars, tripVars, matchVars, crossVars, chainVars, initVars, srcVars, trigVars, tkVars>>

InitSpecSched == InitSched /\ IdleKey /\ IdleFetch /\ IdleEval /\ IdleLog /\ IdleCrud /\ IdleCompare /\ IdleTtl /\ IdleTrip /\ IdleMatch /\ IdleCross /\ IdleChain /\ IdleRedis /\ IdleSource /\ IdleTrigger /\ IdleTicks

SpecSched == InitSpecSched /\ [][NextSched]_vars

NextFetch ==
    \/ PassTime /\ UNCHANGED <<keyVars, schedVars, evalVars, logVars, crudVars, cmpVars, ttlVars, tripVars, matchVars, crossVars, chainVars, initVars, srcVars, trigVars, tkVars>>
    \/ GetTechnicalIndicator /\ UNCHANGED <<keyVars, schedVars, evalVars, logVars, crudVars, cmpVars, ttlVars, tripVars, matchVars, crossVars, chainVars, initVars, srcVars, trigVars, tkVars>>

InitSpecFetch == InitFetch /\ IdleKey /\ IdleSched /\ IdleEval /\ IdleLog /\ IdleCrud /\ IdleCompare /\ IdleTtl /\ IdleTrip /\ IdleMatch /\ IdleCross /\ IdleChain /\ IdleRedis /\ IdleSource /\ IdleTrigger /\ IdleTicks

NextEval ==
    \/ updateStrategy /\ UNCHANGED <<keyVars, schedVars, fetchRest, logVars, crudVars, cmpVars, ttlVars, tripVars, matchVars, crossVars, chainVars, initVars, srcVars, trigVars, tkVars>>
    \/ CacheIndicator /\ UNCHANGED <<keyVars, schedVars, fetchRest, logVars, crudVars, cmpVars, ttlVars, tripVars, matchVars, crossVars, chainVars, initVars, srcVars, trigVars, tkVars>>
    \/ Evaluate /\ UNCHANGED <<keyVars, schedVars, fetchRest, logVars, crudVars, cmpVars, ttlVars, tripVars, matchVars, crossVars, chainVars, initVars, srcVars, trigVars, tkVars>>

InitSpecEval == InitEval /\ IdleKey /\ IdleSched /\ IdleFetch /\ IdleLog /\ IdleCrud /\ IdleCompare /\ IdleTtl /\ IdleTrip /\ IdleMatch /\ IdleCross /\ IdleChain /\ IdleRedis /\ IdleSource /\ IdleTrigger /\ IdleTicks

SpecEval == InitSpecEval /\ [][NextEval]_vars

otherThanLog == <<keyVars, schedVars, fetchVars, evalVars, crudVars, cmpVars, ttlVars, tripVars, matchVars, crossVars, chainVars, initVars, srcVars, trigVars, tkVars>>

NextLog ==
    \/ AppendMessage /\ UNCHANGED otherThanLog
    \/ \E c \in Instances : StartInstance(c) /\ UNCHANGED otherThanLog
    \/ \E c \in Instances : ReadGroup(c) /\ UNCHANGED otherThanLog
    \/ \E c \in Instances : Handle(c) /\ UNCHANGED otherThanLog
    \/ \E c \in Instances : Crash(c) /\ UNCHANGED otherThanLog

InitSpecLog == InitLog /\ IdleKey /\ IdleSched /\ IdleFetch /\ IdleEval /\ IdleCrud /\ IdleCompare /\ IdleTtl /\ IdleTrip /\ IdleMatch /\ IdleCross /\ IdleChain /\ IdleRedis /\ IdleSource /\ IdleTrigger /\ IdleTicks

SpecLog == InitSpecLog /\ [][NextLog]_vars

\* The steps of the instances that run: an instance keeps looping, it
\* starts, reads when there is something to read and handles what it read.
InstanceStep ==
    \E c \in Instances :
        (StartInstance(c) \/ ReadGroup(c) \/ Handle(c)) /\ UNCHANGED otherThanLog

SpecLogFair == SpecLog /\ WF_vars(InstanceStep)

SpecFetch == InitSpecFetch /\ [][NextFetch]_vars

\* The fetcher, the strategies' owner and the evaluation consumer side by side.
NextPipeline ==
    \/ updateStrategy /\ UNCHANGED <<keyVars, schedVars, fetchRest, logVars, crudVars, cmpVars, ttlVars, tripVars, matchVars, crossVars, chainVars, initVars, srcVars, trigVars, tkVars>>
    \/ GetTechnicalIndicator /\ UNCHANGED <<keyVars, schedVars, evalVars, logVars, crudVars, cmpVars, ttlVars, tripVars, matchVars, crossVars, chainVars, initVars, srcVars, trigVars, tkVars>>
    \/ ConsumeUpdate /\ UNCHANGED <<keyVars, schedVars, fetchVars, crudVars, cmpVars, ttlVars, tripVars, matchVars, crossVars, chainVars, initVars, srcVars, trigVars, tkVars>>

InitSpecPipeline == IdleKey /\ IdleSched /\ IdleFetch /\ IdleEval /\ IdleLog /\ IdleCrud /\ IdleCompare /\ IdleTtl /\ IdleTrip /\ IdleMatch /\ IdleCross /\ IdleChain /\ IdleRedis /\ IdleSource /\ IdleTrigger /\ IdleTicks

SpecPipeline == InitSpecPipeline /\ [][NextPipeline]_vars

\* Update requests against the blocks of two strategies.
otherThanCrud == <<keyVars, schedVars, fetchVars, evalVars, logVars, cmpVars, ttlVars, tripVars, matchVars, crossVars, chainVars, initVars, srcVars, trigVars, tkVars>>

NextPatch == PatchBlock /\ UNCHANGED otherThanCrud

InitSpecPatch ==
    InitPatch /\ IdleKey /\ IdleSched /\ IdleFetch /\ IdleEval /\ IdleLog /\ IdleCompare /\ IdleTtl /\ IdleTrip /\ IdleMatch /\ IdleCross /\ IdleChain /\ IdleRedis /\ IdleSource /\ IdleTrigger /\ IdleTicks

SpecPatch == InitSpecPatch /\ [][NextPatch]_vars

\* Requests to the strategy API, one at a time.
NextCrud ==
    \/ createStrategy /\ UNCHANGED <<keyVars, schedVars, fetchVars, evalVars, logVars, cmpVars, ttlVars, tripVars, matchVars, crossVars, chainVars, initVars, srcVars, trigVars, tkVars>>
    \/ deleteStrategy /\ UNCHANGED <<keyVars, schedVars, fetchVars, evalVars, logVars, cmpVars, ttlVars, tripVars, matchVars, crossVars, chainVars, initVars, srcVars, trigVars, tkVars>>
    \/ createStrategyBlock /\ UNCHANGED <<keyVars, schedVars, fetchVars, evalVars, logVars, cmpVars, ttlVars, tripVars, matchVars, crossVars, chainVars, initVars, srcVars, trigVars, tkVars>>
    \/ updateStrategyBlock /\ UNCHANGED <<keyVars, schedVars, fetchVars, evalVars, logVars, cmpVars, ttlVars, tripVars, matchVars, crossVars, chainVars, initVars, srcVars, trigVars, tkVars>>
    \/ deleteStrategyBlock /\ UNCHANGED <<keyVars, schedVars, fetchVars, evalVars, logVars, cmpVars, ttlVars, tripVars, matchVars, crossVars, chainVars, initVars, srcVars, trigVars, tkVars>>

InitSpecCrud == InitCrud /\ IdleKey /\ IdleSched /\ IdleFetch /\ IdleEval /\ IdleLog /\ IdleCompare /\ IdleTtl /\ IdleTrip /\ IdleMatch /\ IdleCross /\ IdleChain /\ IdleRedis /\ IdleSource /\ IdleTrigger /\ IdleTicks

SpecCrud == InitSpecCrud /\ [][NextCrud]_vars

(***************************************************************************)
\* The Evaluation Engine over conditions whose dependencies can be missing.
NextDep ==
    \/ CacheDependency /\ UNCHANGED <<keyVars, schedVars, fetchRest, logVars, crudVars, cmpVars, ttlVars, tripVars, matchVars, crossVars, chainVars, initVars, srcVars, trigVars, tkVars>>
    \/ EvaluateDependents /\ UNCHANGED <<keyVars, schedVars, fetchRest, logVars, crudVars, cmpVars, ttlVars, tripVars, matchVars, crossVars, chainVars, initVars, srcVars, trigVars, tkVars>>

InitSpecDep ==
    InitDep /\ IdleKey /\ IdleSched /\ IdleFetch /\ IdleLog /\ IdleCrud /\ IdleCompare /\ IdleTtl /\ IdleTrip /\ IdleMatch /\ IdleCross /\ IdleChain /\ IdleRedis /\ IdleSource /\ IdleTrigger /\ IdleTicks

SpecDep == InitSpecDep /\ [][NextDep]_vars

\* Discovery ticks whose callbacks may overlap.
otherThanTicks == <<keyVars, schedVars, fetchVars, evalVars, logVars, crudVars, cmpVars, ttlVars, tripVars, matchVars, crossVars, chainVars, initVars, srcVars, trigVars>>

NextTicks ==
    \/ SetTickActive /\ UNCHANGED otherThanTicks
    \/ OverlapTickStart /\ UNCHANGED otherThanTicks
    \/ OverlapTickApply /\ UNCHANGED otherThanTicks
    \/ OverlapTickFail /\ UNCHANGED otherThanTicks

InitSpecTicks ==
    InitTicks /\ IdleKey /\ IdleSched /\ IdleFetch /\ IdleEval /\ IdleLog /\ IdleCrud /\ IdleCompare /\ IdleTtl /\ IdleTrip /\ IdleMatch /\ IdleCross /\ IdleChain /\ IdleRedis /\ IdleSource /\ IdleTrigger

SpecTicks == InitSpecTicks /\ [][NextTicks]_vars

\* The scheduler started once and stopped at some moment.
NextStop ==
    \/ SetTickActive /\ UNCHANGED otherThanTicks
    \/ OverlapTickStart /\ UNCHANGED otherThanTicks
    \/ OverlapTickApply /\ UNCHANGED otherThanTicks
    \/ StopTicks /\ UNCHANGED otherThanTicks

InitSpecStop ==
    InitTicks /\ IdleKey /\ IdleSched /\ IdleFetch /\ IdleEval /\ IdleLog /\ IdleCrud /\ IdleCompare /\ IdleTtl /\ IdleTrip /\ IdleMatch /\ IdleCross /\ IdleChain /\ IdleRedis /\ IdleSource /\ IdleTrigger

SpecStop == InitSpecStop /\ [][NextStop]_vars

\* The scheduler against a database that is not edited meanwhile.
NextScan ==
    \/ TickStart /\ UNCHANGED <<keyVars, fetchVars, evalVars, logVars, crudVars, cmpVars, ttlVars, tripVars, matchVars, crossVars, chainVars, initVars, srcVars, trigVars, tkVars>>
    \/ TickApply /\ UNCHANGED <<keyVars, fetchVars, evalVars, logVars, crudVars, cmpVars, ttlVars, tripVars, matchVars, crossVars, chainVars, initVars, srcVars, trigVars, tkVars>>
    \/ TickFail /\ UNCHANGED <<keyVars, fetchVars, evalVars, logVars, crudVars, cmpVars, ttlVars, tripVars, matchVars, crossVars, chainVars, initVars, srcVars, trigVars, tkVars>>
    \/ stopScheduler /\ UNCHANGED <<keyVars, fetchVars, evalVars, logVars, crudVars, cmpVars, ttlVars, tripVars, matchVars, crossVars, chainVars, initVars, srcVars, trigVars, tkVars>>

InitSpecScan ==
    InitScan /\ IdleKey /\ IdleFetch /\ IdleEval /\ IdleLog /\ IdleCrud /\ IdleCompare /\ IdleTtl /\ IdleTrip /\ IdleMatch /\ IdleCross /\ IdleChain /\ IdleRedis /\ IdleSource /\ IdleTrigger /\ IdleTicks

SpecScan == InitSpecScan /\ [][NextScan]_vars

\* Repeated evaluation cycles over crossover Conditions.
NextCross ==
    \/ CacheCross /\ UNCHANGED <<keyVars, schedVars, evalVars, logVars, crudVars, cmpVars, ttlVars, tripVars, matchVars, chainVars, initVars, srcVars, trigVars, tkVars>>
    \/ EvaluateCross /\ UNCHANGED <<keyVars, schedVars, evalVars, logVars, crudVars, cmpVars, ttlVars, tripVars, matchVars, chainVars, initVars, srcVars, trigVars, tkVars>>

InitSpecCross ==
    InitCross /\ IdleKey /\ IdleSched /\ IdleFetch /\ IdleEval /\ IdleLog /\ IdleCrud /\ IdleCompare /\ IdleTtl /\ IdleTrip /\ IdleMatch /\ IdleChain /\ IdleRedis /\ IdleSource /\ IdleTrigger /\ IdleTicks

SpecCross == InitSpecCross /\ [][NextCross]_vars

\* Evaluation of Conditions that target one another.
NextChain ==
    \/ CacheChain /\ UNCHANGED <<keyVars, schedVars, evalVars, logVars, crudVars, cmpVars, ttlVars, tripVars, matchVars, crossVars, initVars, srcVars, trigVars, tkVars>>
    \/ EvaluateChain /\ UNCHANGED <<keyVars, schedVars, evalVars, logVars, crudVars, cmpVars, ttlVars, tripVars, matchVars, crossVars, initVars, srcVars, trigVars, tkVars>>

InitSpecChain ==
    InitChain /\ IdleKey /\ IdleSched /\ IdleFetch /\ IdleEval /\ IdleLog /\ IdleCrud /\ IdleCompare /\ IdleTtl /\ IdleTrip /\ IdleMatch /\ IdleCross /\ IdleRedis /\ IdleSource /\ IdleTrigger /\ IdleTicks

SpecChain == InitSpecChain /\ [][NextChain]_vars

\* The shared Redis client.
otherThanRedis == <<keyVars, schedVars, fetchVars, evalVars, logVars, crudVars, cmpVars, ttlVars, tripVars, matchVars, crossVars, chainVars, srcVars, trigVars, tkVars>>

CallInitRedis == \E caller \in InitCallers : initRedis(caller)
CallerSettled == \E caller \in InitCallers : Settled(caller)

NextRedis ==
    \/ CallInitRedis /\ UNCHANGED otherThanRedis
    \/ ConnectResolves /\ UNCHANGED otherThanRedis
    \/ ConnectRejects /\ UNCHANGED otherThanRedis
    \/ CallerSettled /\ UNCHANGED otherThanRedis

InitSpecRedis ==
    InitRedis /\ IdleKey /\ IdleSched /\ IdleFetch /\ IdleEval /\ IdleLog /\ IdleCrud /\ IdleCompare /\ IdleTtl /\ IdleTrip /\ IdleMatch /\ IdleCross /\ IdleChain /\ IdleSource /\ IdleTrigger /\ IdleTicks

SpecRedis == InitSpecRedis /\ [][NextRedis]_vars

\* Discovery ticks against rows that differ in dataSource.
otherThanSource == <<keyVars, schedVars, fetchVars, evalVars, logVars, crudVars, cmpVars, ttlVars, tripVars, matchVars, crossVars, chainVars, initVars, trigVars, tkVars>>

NextSource ==
    \/ SetSourceActive /\ UNCHANGED otherThanSource
    \/ SourceTick /\ UNCHANGED otherThanSource

InitSpecSource ==
    InitSource /\ IdleKey /\ IdleSched /\ IdleFetch /\ IdleEval /\ IdleLog /\ IdleCrud /\ IdleCompare /\ IdleTtl /\ IdleTrip /\ IdleMatch /\ IdleCross /\ IdleChain /\ IdleRedis /\ IdleTrigger /\ IdleTicks

SpecSource == InitSpecSource /\ [][NextSource]_vars

\* Requests for different indicators against one cache.
otherThanFetch == <<keyVars, schedVars, evalVars, logVars, crudVars, cmpVars, ttlVars, tripVars, matchVars, crossVars, chainVars, initVars, srcVars, trigVars, tkVars>>

NextRequests ==
    RequestIndicator /\ UNCHANGED otherThanFetch

InitSpecRequests ==
    InitRequests /\ IdleKey /\ IdleSched /\ IdleEval /\ IdleLog /\ IdleCrud /\ IdleCompare /\ IdleTtl /\ IdleTrip /\ IdleMatch /\ IdleCross /\ IdleChain /\ IdleRedis /\ IdleSource /\ IdleTrigger /\ IdleTicks

SpecRequests == InitSpecRequests /\ [][NextRequests]_vars

\* Evaluation cycles and the cache entry of the event that triggers them.
otherThanTrigger == <<keyVars, schedVars, evalVars, logVars, crudVars, cmpVars, ttlVars, tripVars, matchVars, crossVars, chainVars, initVars, srcVars, tkVars>>

NextTrigger ==
    \/ CacheTrigger /\ UNCHANGED otherThanTrigger
    \/ EvaluateTrigger /\ UNCHANGED otherThanTrigger

InitSpecTrigger ==
    InitTrigger /\ IdleKey /\ IdleSched /\ IdleFetch /\ IdleEval /\ IdleLog /\ IdleCrud /\ IdleCompare /\ IdleTtl /\ IdleTrip /\ IdleMatch /\ IdleCross /\ IdleChain /\ IdleRedis /\ IdleSource /\ IdleTicks

SpecTrigger == InitSpecTrigger /\ [][NextTrigger]_vars

\* The matching step on its own.
NextMatch ==
    MatchUpdate /\ UNCHANGED <<keyVars, schedVars, fetchVars, evalVars, logVars, crudVars, cmpVars, ttlVars, tripVars, crossVars, chainVars, initVars, srcVars, trigVars, tkVars>>

InitSpecMatch ==
    InitMatch /\ IdleKey /\ IdleSched /\ IdleFetch /\ IdleEval /\ IdleLog /\ IdleCrud /\ IdleCompare /\ IdleTtl /\ IdleTrip /\ IdleCross /\ IdleChain /\ IdleRedis /\ IdleSource /\ IdleTrigger /\ IdleTicks

SpecMatch == InitSpecMatch /\ [][NextMatch]_vars

\* The freshness cache on its own.
tripRest == <<indStream, providerCalls, fetchCalls, lastCall>>
NextTrip ==
    \/ PutEntry /\ UNCHANGED <<tripRest, keyVars, schedVars, evalVars, logVars, crudVars, cmpVars, ttlVars, matchVars, crossVars, chainVars, initVars, srcVars, trigVars, tkVars>>
    \/ StoreUnparseable /\ UNCHANGED <<tripRest, keyVars, schedVars, evalVars, logVars, crudVars, cmpVars, ttlVars, matchVars, crossVars, chainVars, initVars, srcVars, trigVars, tkVars>>
    \/ GetEntry /\ UNCHANGED <<tripRest, keyVars, schedVars, evalVars, logVars, crudVars, cmpVars, ttlVars, matchVars, crossVars, chainVars, initVars, srcVars, trigVars, tkVars>>
    \/ PassTime /\ UNCHANGED <<tripVars, keyVars, schedVars, evalVars, logVars, crudVars, cmpVars, ttlVars, matchVars, crossVars, chainVars, initVars, srcVars, trigVars, tkVars>>

InitSpecTrip ==
    InitTrip /\ IdleKey /\ IdleSched /\ IdleEval /\ IdleLog /\ IdleCrud /\ IdleCompare /\ IdleTtl /\ IdleMatch /\ IdleCross /\ IdleChain /\ IdleRedis /\ IdleSource /\ IdleTrigger /\ IdleTicks

SpecTrip == InitSpecTrip /\ [][NextTrip]_vars

\* The TTL on its own.
NextTtl ==
    ChooseTtl /\ UNCHANGED <<keyVars, schedVars, fetchVars, evalVars, logVars, crudVars, cmpVars, tripVars, matchVars, crossVars, chainVars, initVars, srcVars, trigVars, tkVars>>

InitSpecTtl ==
    InitTtl /\ IdleKey /\ IdleSched /\ IdleFetch /\ IdleEval /\ IdleLog /\ IdleCrud /\ IdleCompare /\ IdleTrip /\ IdleMatch /\ IdleCross /\ IdleChain /\ IdleRedis /\ IdleSource /\ IdleTrigger /\ IdleTicks

SpecTtl == InitSpecTtl /\ [][NextTtl]_vars

\* evaluateSingleCondition on its own.
NextCompare ==
    EvaluateSingle /\ UNCHANGED <<keyVars, schedVars, fetchVars, evalVars, logVars, crudVars, ttlVars, tripVars, matchVars, crossVars, chainVars, initVars, srcVars, trigVars, tkVars>>

InitSpecCompare ==
    InitCompare /\ IdleKey /\ IdleSched /\ IdleFetch /\ IdleEval /\ IdleLog /\ IdleCrud /\ IdleTtl /\ IdleTrip /\ IdleMatch /\ IdleCross /\ IdleChain /\ IdleRedis /\ IdleSource /\ IdleTrigger /\ IdleTicks

SpecCompare == InitSpecCompare /\ [][NextCompare]_vars

(* The claims.                                                             *)
(***************************************************************************)
\* C3: structurally equal requests (nested parameters in any insertion
\* order) get the identical fingerprint.
C3_KeyOrderInvariant ==
    (pcKey = "done" /\ RequestsEqual(req1, req2)) => key1 = key2

\* C5: after a discovery tick whose scan yields the fingerprints N, applied to
\* a task map with the fingerprints P: the tasks of P \ N are stopped and out
\* of the map, those of N \ P are new tasks stored in the map, and those of
\* P \cap N are the very tasks they were, still running.
C5_DiscoveryDiff ==
    lastOp = "tick" =>
        /\ DOMAIN scheduledJobs = lastScanKeys
        /\ \A k \in DOMAIN prevJobs \ lastScanKeys :
              taskState[prevJobs[k]] = "stopped"
        /\ \A k \in lastScanKeys \ DOMAIN prevJobs :
              /\ scheduledJobs[k] \notin TasksOf(prevJobs)
              /\ taskState[scheduledJobs[k]] = "running"
        /\ \A k \in lastScanKeys \cap DOMAIN prevJobs :
              /\ scheduledJobs[k] = prevJobs[k]
              /\ taskState[scheduledJobs[k]] = "running"

\* The claim's case: the map held {A,B}, the tick's scan gave {B,C}.
C5_Witness ==
    /\ lastOp = "tick"
    /\ \E a, b, c \in DOMAIN prevJobs \cup lastScanKeys :
          /\ a # b /\ b # c /\ a # c
          /\ DOMAIN prevJobs = {a, b}
          /\ lastScanKeys = {b, c}
          /\ DOMAIN scheduledJobs = {b, c}
          /\ scheduledJobs[b] = prevJobs[b]

\* C20: at every moment, with scans of overlapping ticks pending or applied
\* in any order and stopScheduler at any point between them: no task is
\* stored under two job keys, every task of the map is running, and every
\* running task is the entry of a job key of the map, so that no job key has
\* two running tasks and no running task is outside the map.
C20_OneLiveTaskPerFingerprint ==
    /\ \A k1, k2 \in DOMAIN scheduledJobs :
          scheduledJobs[k1] = scheduledJobs[k2] => k1 = k2
    /\ \A k \in DOMAIN scheduledJobs :
          /\ scheduledJobs[k] \in DOMAIN taskState
          /\ taskState[scheduledJobs[k]] = "running"
    /\ \A t \in DOMAIN taskState :
          taskState[t] = "running" => t \in TasksOf(scheduledJobs)

\* C20 happens: the second tick started while the scan of the first was
\* pending and was applied before it; the first tick's scan, still pending,
\* yields a job key the map already holds.
C20_Witness ==
    /\ lastOp = "tick"
    /\ tickCount = 2
    /\ \E scan \in pendingScans :
          /\ scan.tick = 1
          /\ \E i \in DOMAIN scan.inds : JobKeyOf[scan.inds[i]] \in DOMAIN scheduledJobs

\* C21: when stopScheduler returns, every task that was in the task map is
\* stopped and the task map is empty.
C21_StopStopsAll ==
    [][(lastOp' = "stop" /\ <<scheduledJobs, taskState, lastOp>>' # <<scheduledJobs, taskState, lastOp>>)
       => (/\ scheduledJobs' = <<>>
           /\ \A t \in TasksOf(scheduledJobs) : taskState'[t] = "stopped")]_vars

\* C21 happens: the last tick left two or more jobs in the map, and
\* stopScheduler then stopped them all.
C21_Witness ==
    /\ lastOp = "stop"
    /\ Cardinality(lastScanKeys) >= 2
    /\ scheduledJobs = <<>>
    /\ Cardinality(DOMAIN taskState) >= 2
    /\ \A t \in DOMAIN taskState : taskState[t] = "stopped"

\* C27: a crossover Condition is true only in the cycle in which the value
\* moved across the target: of two cycles that read the same cached series,
\* with no write to it between them, at most one publishes the actions of a
\* strategy.
C27_CrossoverOnce ==
    \A i, j \in DOMAIN crossLog :
        (i < j /\ crossLog[i].writes = crossLog[j].writes) =>
            crossLog[i].met \cap crossLog[j].met = {}

\* The Condition of a strategy of the target fixture.
ChainConditionOf(s) ==
    ChainConds[CHOOSE i \in DOMAIN ChainConds :
        \E b \in DOMAIN ChainBlocks : /\ ChainBlocks[b].strategyId = s
                                       /\ ChainBlocks[b].conditionId = Some(ChainConds[i].id)]

\* The latest value of the series cached under the key of Condition id.
LatestOf(id) ==
    LET entry == getCachedIndicatorEntry(cache, now, ChainKeyOf[id])
    IN  IF IsSome(entry) THEN getLatestIndicatorValue(EntryData(entry)) ELSE None

\* C28: the evaluation of a Condition that targets another Condition
\* returns, and uses one level of indirection: a strategy's actions are
\* published exactly when its Condition's own latest value compares as its
\* operator says with the latest value cached under the target Condition's
\* own key, whatever the target Condition itself targets (a1 and a2 target
\* each other, a3 targets itself, a4 targets a1, a5 targets a4).
C28_OneLevelTarget ==
    chainOut # None =>
        \A s \in Get(chainOut).relevant :
            LET cond == ChainConditionOf(s)
                own == LatestOf(cond.id)
                target == LatestOf(Get(cond.targetIndicatorId))
            IN  (s \in Get(chainOut).met) =
                    (/\ IsSome(own) /\ IsSome(target)
                     /\ Compare(cond.operator, Get(own), None, Get(target)))

\* C28 happens: with the SMA at 155 and the EMA at 140 cached, the SMA
\* update evaluated a1 (against a2, which targets a1 back) and a3 (against
\* itself), and both strategies had their actions published.
C28_Witness ==
    /\ chainOut = Some([relevant |-> {"N1", "N3"}, met |-> {"N1", "N3"}])
    /\ LatestOf("a1") = Some(155 * Scale)
    /\ LatestOf("a2") = Some(140 * Scale)

\* A Condition row lacks its symbol or its interval (null or empty string).
MissingField(cond) ==
    \/ cond.symbol = None \/ cond.symbol = Some("")
    \/ cond.interval = None \/ cond.interval = Some("")

\* Rows that lack a symbol or an interval in each of the ways a row can.
IncompleteRows ==
    {CondRow("cX", "RSI", symbol, interval, <<Pair("time_period", JNum(14))>>,
             None, "LESS_THAN", Some(30), None) :
        symbol \in {None, Some(""), Some("AAPL")},
        interval \in {None, Some(""), Some("daily")}}
    \ {CondRow("cX", "RSI", Some("AAPL"), Some("daily"),
                <<Pair("time_period", JNum(14))>>, None, "LESS_THAN", Some(30), None)}

\* What the scan returns for an incomplete row next to a complete one, in
\* either order.
IncompleteScans ==
    [row \in IncompleteRows |->
        <<getTechnicalActiveIndicators(<<row, SchedConds[1]>>),
          getTechnicalActiveIndicators(<<SchedConds[1], row>>)>>]

\* The job key of each row of the scheduler's database.
RowJobKey == [i \in DOMAIN SchedConds |-> JobKeyOf[IndicatorOf(SchedConds[i])]]

\* C26: a Condition without symbol or without interval (null or empty) never
\* gets a refresh task: the scan leaves it out, and a tick that scanned it
\* completes with a running task for every other Condition of the scan and
\* none for it.
C26_IncompleteConditionSkipped ==
    /\ \A row \in IncompleteRows :
          IncompleteScans[row] = <<ScanResult[{1}], ScanResult[{1}]>>
    /\ \A i \in DOMAIN SchedConds :
          MissingField(SchedConds[i]) => RowJobKey[i] \notin DOMAIN scheduledJobs
    /\ lastOp = "tick" =>
          \A i \in activeConds :
              ~MissingField(SchedConds[i]) =>
                  /\ RowJobKey[i] \in DOMAIN scheduledJobs
                  /\ taskState[scheduledJobs[RowJobKey[i]]] = "running"

\* C26 happens: a tick scanned a Condition without symbol together with two
\* complete ones and left exactly the two tasks of the latter.
C26_Witness ==
    /\ lastOp = "tick"
    /\ \E i \in activeConds : MissingField(SchedConds[i])
    /\ Cardinality({i \in activeConds : ~MissingField(SchedConds[i])}) = 2
    /\ Cardinality(DOMAIN scheduledJobs) = 2

\* The place of an interval on the ladder 1min, 5min, daily, weekly, monthly;
\* 0 for an interval that is not on it.
TierRank(interval) ==
    CASE interval = Some(JStr("1min")) -> 1
      [] interval = Some(JStr("5min")) -> 2
      [] interval = Some(JStr("daily")) -> 3
      [] interval = Some(JStr("weekly")) -> 4
      [] interval = Some(JStr("monthly")) -> 5
      [] OTHER -> 0

\* C22: of two intervals on the ladder 1min < 5min < daily < weekly <
\* monthly, the one on the lower tier gets the strictly smaller TTL.
C22_TtlMonotone ==
    ttlOut # None =>
        LET a == Get(ttlIn)[1]
            b == Get(ttlIn)[2]
        IN  (TierRank(a) > 0 /\ TierRank(a) < TierRank(b)) =>
                Get(ttlOut)[1] < Get(ttlOut)[2]

\* C22 happens: the TTLs of daily and weekly were chosen, 25 hours and a
\* week and an hour.
C22_Witness ==
    /\ ttlOut # None
    /\ Get(ttlIn) = <<Some(JStr("daily")), Some(JStr("weekly"))>>
    /\ Get(ttlOut) = <<90000, 608400>>

\* C23: getCachedIndicatorEntry(key) returns the data and the metadata of the
\* last setCachedIndicatorData under the key while fewer than its ttl
\* seconds have passed since that put, nothing once they have passed or
\* when nothing was put, and nothing when the value stored last under the
\* key does not parse.
C23_CacheRoundTrip ==
    lastGet.kind = "get" =>
        IF /\ IsSome(lastGet.seen)
           /\ Get(lastGet.seen).kind = "put"
           /\ lastGet.at < Get(lastGet.seen).at + Get(lastGet.seen).ttl
        THEN /\ IsSome(lastGet.result)
             /\ Field(Get(lastGet.result), "data") = Some(Get(lastGet.seen).data)
             /\ Field(Get(lastGet.result), "metadata") = Some(Get(lastGet.seen).metadata)
        ELSE lastGet.result = None

\* C23 happens: a second put overwrote the key's entry and a read within its
\* ttl returned it.
C23_Witness ==
    /\ lastGet.kind = "get"
    /\ cacheOps = 2
    /\ Cardinality(DOMAIN puts) = 1
    /\ IsSome(lastGet.seen)
    /\ Get(lastGet.seen).kind = "put"
    /\ Get(lastGet.seen).at > 0
    /\ lastGet.at < Get(lastGet.seen).at + Get(lastGet.seen).ttl
    /\ IsSome(lastGet.result)
    /\ Field(Get(lastGet.result), "data") = Some(SeriesFall)

\* C24: an instance whose group setup found the group existing (BUSYGROUP)
\* or created it has started its read loop; an instance whose setup hit
\* any other error has not: no entry was ever delivered to it, handled by
\* it or is pending for it.
C24_SetupIdempotent ==
    \A c \in Instances :
        /\ (consumers[c].setup = "created" \/ IncludesBusyGroup(consumers[c].setup)) =>
               consumers[c].pc \in {"reading", "handling", "crashed"}
        /\ consumers[c].setup = "ECONNREFUSED" =>
               /\ consumers[c].pc = "failed"
               /\ consumers[c].batch = <<>>
               /\ \A i \in DOMAIN logStream :
                     /\ c \notin deliveredTo[i]
                     /\ c \notin processedBy[i]
                     /\ i \in DOMAIN pending => pending[i] # c

\* C24 happens: p1 created the group, p2 found it existing and went on to
\* read and acknowledge an entry.
C24_Witness ==
    /\ consumers["p1"].setup = "created"
    /\ IncludesBusyGroup(consumers["p2"].setup)
    /\ \E i \in DOMAIN logStream : "p2" \in deliveredTo[i] /\ i \in acked

\* C25: a Condition is matched to an indicator update exactly when their
\* indicator type, symbol and interval are equal and the Condition's
\* parameters are structurally equal to the update's (same keys, same
\* values, in whatever order).
C25_StructuralMatch ==
    matchOut # None =>
        LET in == Get(matchIn)
        IN  Get(matchOut) =
               (/\ in.type = "SMA" /\ in.symbol = "AAPL" /\ in.interval = "daily"
                /\ StructEq(JObj(in.parameters), JObj(in.updatedParams)))

\* C6: a call with forceRefresh unset that finds an unexpired entry under the
\* request's fingerprint returns the entry's data, does not contact the
\* provider, leaves the cache as it is and publishes nothing.
C6_CacheHit ==
    [][(/\ fetchCalls' = fetchCalls + 1
        /\ ~lastCall'.forceRefresh
        /\ IsSome(getCachedIndicatorEntry(cache, now, lastCall'.cacheKey)))
       => (/\ providerCalls' = providerCalls
           /\ cache' = cache
           /\ indStream' = indStream
           /\ lastCall'.result =
                  Field(Get(getCachedIndicatorEntry(cache, now, lastCall'.cacheKey)), "data"))]_vars

\* C6 happens: a second call for a cached fingerprint was answered from the
\* cache after one provider call.
C6_Witness ==
    /\ lastCall.kind = "call"
    /\ ~lastCall.forceRefresh
    /\ ~lastCall.contacted
    /\ IsSome(lastCall.result)
    /\ fetchCalls = 2
    /\ providerCalls = 1

\* C7: a call whose provider answer lacks the metadata block, lacks a data
\* block, carries an error message or a rate-limit signal, or whose HTTP call
\* fails, writes nothing to the cache and publishes no IndicatorUpdateEvent.
C7_SoftFailureAborts ==
    [][(/\ fetchCalls' = fetchCalls + 1
        /\ lastCall'.contacted
        /\ SoftFailure(lastCall'.resp))
       => (cache' = cache /\ indStream' = indStream)]_vars

\* C19: a call that wrote the fetched data to the cache and whose publish
\* step then failed (the stream client was not ready or the append threw)
\* appends nothing, leaves the entry in the cache and returns the fetched
\* data to its caller.
C19_PublishFailureKeepsData ==
    [][(/\ fetchCalls' = fetchCalls + 1
        /\ lastCall'.contacted
        /\ lastCall'.fault \in {"streamNotReady", "streamAppend"})
       => LET fetched == FindIndicatorData(lastCall'.resp.data.o, 1)
              cachedEntry == getCachedIndicatorEntry(cache', now, lastCall'.cacheKey)
          IN  /\ indStream' = indStream
              /\ IsSome(fetched)
              /\ IsSome(cachedEntry)
              /\ Field(Get(cachedEntry), "data") = fetched
              /\ lastCall'.result = fetched]_vars

\* C19 happens: a call got the provider's series while the append to the
\* stream threw: the series is in the cache, the stream is empty and the
\* caller has the series.
C19_Witness ==
    /\ lastCall.kind = "call"
    /\ lastCall.contacted
    /\ lastCall.fault = "streamAppend"
    /\ IsSome(lastCall.result)
    /\ IsSome(getCachedIndicatorEntry(cache, now, lastCall.cacheKey))
    /\ indStream = <<>>

\* The events of strategy s for action a among the entries the cycle appended
\* to the action-required stream.
NewActionEvents(before, after, s, a) ==
    {i \in (Len(before) + 1)..Len(after) :
        /\ StreamField(after[i].message, "strategyId") = <<TRaw(s)>>
        /\ StreamField(after[i].message, "actionId") = <<TRaw(a)>>}
\* The publishActionRequired calls of the cycle for strategy s and action a.
PublishCalls(calls, s, a) ==
    {i \in DOMAIN calls : calls[i].strategyId = s /\ calls[i].actionId = a}
\* The de-duplicated conditions and actions linked to the blocks of s.
ConditionSetOf(s) ==
    {EvalConds[i] : i \in {j \in DOMAIN EvalConds :
        \E b \in DOMAIN EvalBlocks : /\ EvalBlocks[b].strategyId = s
                                     /\ EvalBlocks[b].conditionId = Some(EvalConds[j].id)}}
ActionSetOf(s) ==
    {EvalActions[i].id : i \in {j \in DOMAIN EvalActions :
        \E b \in DOMAIN EvalBlocks : /\ EvalBlocks[b].strategyId = s
                                     /\ EvalBlocks[b].actionId = Some(EvalActions[j].id)}}
ActionIds == {EvalActions[i].id : i \in DOMAIN EvalActions}

\* C1: in one evaluation cycle, for every affected active strategy: when a
\* condition of its de-duplicated condition set is false or unavailable,
\* publishActionRequired is not called and no event is appended for it; when
\* all are true, publishActionRequired is called exactly once for each
\* distinct action linked to its blocks and for no other action, and each
\* call appends exactly one event when the stream takes it (never more than
\* one); a strategy that is not affected gets no event.
C1_AndSemantics ==
    [][evalCycles' = evalCycles + 1 =>
        \A s \in StrategyIds, a \in ActionIds :
            LET affected == \E i \in DOMAIN lastEval'.relevant : lastEval'.relevant[i] = s
                allTrue == \A cond \in ConditionSetOf(s) :
                              ConditionMet(cond, EvalConds, ConditionKeyOf, cache, now)
                calls == Cardinality(PublishCalls(lastEval'.calls, s, a))
                events == Cardinality(NewActionEvents(actStream, actStream', s, a))
            IN  /\ affected => s \in activeStrategies
                /\ IF affected /\ allTrue /\ a \in ActionSetOf(s)
                   THEN /\ calls = 1
                        /\ events <= 1
                        /\ lastEval'.fault = "none" => events = 1
                   ELSE calls = 0 /\ events = 0]_vars

\* C1 happens: S1 with the conditions c1 (linked twice) and c2 both true and
\* the actions a1 (linked twice) and a2 got exactly two events, while S2 was
\* evaluated in the same cycle.
C1_Witness ==
    /\ lastEval.kind = "eval"
    /\ lastEval.fault = "none"
    /\ lastEval.relevant = <<"S1", "S2">>
    /\ Cardinality(PublishCalls(lastEval.calls, "S1", "a1")) = 1
    /\ Cardinality(PublishCalls(lastEval.calls, "S1", "a2")) = 1
    /\ Len(actStream) = 3

\* The latest value of the series the cache holds under key, None when the
\* cache has no live entry for it.
LatestCached(key) ==
    LET cachedEntry == getCachedIndicatorEntry(cache, now, key)
    IN  IF IsSome(cachedEntry) THEN getLatestIndicatorValue(EntryData(cachedEntry))
        ELSE None

\* C2: when the consumer evaluates an event that getTechnicalIndicator
\* published for the indicator of condition c1 (SMA, AAPL, daily,
\* {time_period: 20}), strategy S2, whose only condition is c1
\* (GREATER_THAN 150), is active, the latest cached value is 155 and the
\* action-required stream takes what is appended, then exactly one event for
\* S2's linked action a3 is appended.
C2_EndToEnd ==
    [][(/\ lastDelivered' = lastDelivered + 1
        /\ lastEval'.kind = "eval"
        /\ lastEval'.fault = "none"
        /\ StreamField(indStream[lastDelivered'].message, "cacheKey")
              = <<TRaw(ConditionKeyOf["c1"])>>
        /\ "S2" \in activeStrategies
        /\ LatestCached(ConditionKeyOf["c1"]) = Some(155 * Scale))
       => Cardinality(NewActionEvents(actStream, actStream', "S2", "a3")) = 1]_vars

\* The blockTable of strategy s.
BlocksOf(s) == {b \in DOMAIN blockTable : blockTable[b].strategyId = s}

RECURSIVE ClimbsTo(_, _, _)
\* Following parent links from block b reaches root within n steps.
ClimbsTo(b, root, n) ==
    IF b = root THEN TRUE
    ELSE IF n = 0 \/ b \notin DOMAIN blockTable \/ blockTable[b].parentId = None THEN FALSE
    ELSE ClimbsTo(Get(blockTable[b].parentId), root, n - 1)

\* C11: the blockTable of every strategy form a tree rooted at the strategy's
\* root block: from every block the parent links lead to the root block
\* without visiting a block twice.
C11_BlockTree ==
    \A s \in DOMAIN strategyTable : \A b \in BlocksOf(s) :
        /\ strategyTable[s].rootBlockId # None
        /\ ClimbsTo(b, Get(strategyTable[s].rootBlockId), Cardinality(BlocksOf(s)) - 1)

\* C12: every existing strategy has exactly one ROOT block and its
\* rootBlockId refers to that block.
C12_OneRoot ==
    \A s \in DOMAIN strategyTable :
        LET roots == {b \in BlocksOf(s) : blockTable[b].blockType = "ROOT"}
        IN  /\ Cardinality(roots) = 1
            /\ strategyTable[s].rootBlockId # None
            /\ Get(strategyTable[s].rootBlockId) \in roots

\* C13: every Condition row has exactly one of targetValue and
\* targetIndicatorId set.
C13_OneTarget ==
    \A c \in DOMAIN conditionTable :
        (conditionTable[c].targetValue = None) # (conditionTable[c].targetIndicatorId = None)

\* C14: a block deletion that goes through removes the block and the blockTable
\* below it, and leaves the Condition and the Action tables as they were.
C14_DeleteKeepsRows ==
    [][(lastRequest'.op = "deleteStrategyBlock" /\ lastRequest'.status = 204)
       => /\ lastRequest'.gone # {}
          /\ DOMAIN blockTable' = DOMAIN blockTable \ lastRequest'.gone
          /\ \A b \in DOMAIN blockTable' :
                blockTable'[b].parentId # None => Get(blockTable'[b].parentId) \notin lastRequest'.gone
          /\ conditionTable' = conditionTable
          /\ actionTable' = actionTable]_vars

\* C14 happens: a deletion removed a block with a block below it, and a
\* Condition and an Action that no block refers to any more are still there.
C14_Witness ==
    /\ lastRequest.op = "deleteStrategyBlock"
    /\ lastRequest.status = 204
    /\ Cardinality(lastRequest.gone) >= 2
    /\ \E c \in DOMAIN conditionTable :
          \A b \in DOMAIN blockTable : blockTable[b].conditionId # Some(c)
    /\ \E a \in DOMAIN actionTable :
          \A b \in DOMAIN blockTable : blockTable[b].actionId # Some(a)

\* C15: in an evaluation cycle a strategy that is inactive is not among the
\* strategies evaluated, publishActionRequired is not called for it and no
\* event is appended for it, whether or not its conditions are shared with
\* an active strategy.
C15_InactiveNeverTriggered ==
    [][evalCycles' = evalCycles + 1 =>
        \A s \in StrategyIds \ activeStrategies :
            /\ \A i \in DOMAIN lastEval'.relevant : lastEval'.relevant[i] # s
            /\ \A a \in ActionIds :
                  /\ PublishCalls(lastEval'.calls, s, a) = {}
                  /\ NewActionEvents(actStream, actStream', s, a) = {}]_vars

\* C15 happens: condition c1 is shared by S1 (inactive) and S2 (active), the
\* SMA update made the cycle evaluate S2 only, and S2's event was appended.
C15_Witness ==
    /\ lastEval.kind = "eval"
    /\ lastEval.fault = "none"
    /\ lastEval.relevant = <<"S2">>
    /\ Cardinality(PublishCalls(lastEval.calls, "S2", "a3")) = 1
    /\ Len(actStream) = 1
    /\ StreamField(actStream[1].message, "strategyId") = <<TRaw("S2")>>

\* The de-duplicated conditions and actions linked to the blocks of s.
DepConditionSetOf(s) ==
    {DepConds[i] : i \in {j \in DOMAIN DepConds :
        \E b \in DOMAIN DepBlocks : /\ DepBlocks[b].strategyId = s
                                    /\ DepBlocks[b].conditionId = Some(DepConds[j].id)}}
DepActionSetOf(s) ==
    {DepActions[i].id : i \in {j \in DOMAIN DepActions :
        \E b \in DOMAIN DepBlocks : /\ DepBlocks[b].strategyId = s
                                    /\ DepBlocks[b].actionId = Some(DepActions[j].id)}}
DepActionIds == {DepActions[i].id : i \in DOMAIN DepActions}

\* A dependency of the condition is missing: no live cache entry under its
\* own key, no number in the latest point of its series, its target Condition
\* row not found, no live cache entry under the target's key or no number in
\* the latest point of the target's series.
MissingDependency(cond) ==
    LET own == getCachedIndicatorEntry(cache, now, DepKeyOf[cond.id])
        targetRow == FindCondition(DepConds, Get(cond.targetIndicatorId))
        targetEntry == getCachedIndicatorEntry(cache, now, DepKeyOf[Get(targetRow).id])
    IN  \/ ~IsSome(own)
        \/ getLatestIndicatorValue(EntryData(own)) = None
        \/ /\ cond.targetIndicatorId # None
           /\ \/ targetRow = None
              \/ ~IsSome(targetEntry)
              \/ getLatestIndicatorValue(EntryData(targetEntry)) = None

\* The strategies of the cycle that come after position i of the relevant
\* list, have every dependency and every comparison true.
MetAfter(relevant, i) ==
    {relevant[j] : j \in {k \in DOMAIN relevant : k > i /\
        \A cond \in DepConditionSetOf(relevant[k]) :
            ~MissingDependency(cond)
            /\ ConditionMet(cond, DepConds, DepKeyOf, cache, now)}}

\* C18: in an evaluation cycle, an affected strategy with a condition whose
\* dependency is missing gets no publishActionRequired call and no event,
\* the cycle still completes, and every affected strategy after it in the
\* cycle whose conditions all hold gets its calls.
C18_MissingDataIsFalse ==
    [][evalCycles' = evalCycles + 1 =>
        /\ lastEval'.kind = "eval"
        /\ \A i \in DOMAIN lastEval'.relevant :
              LET s == lastEval'.relevant[i]
              IN  (\E cond \in DepConditionSetOf(s) : MissingDependency(cond)) =>
                     /\ \A a \in DepActionIds :
                           /\ PublishCalls(lastEval'.calls, s, a) = {}
                           /\ NewActionEvents(actStream, actStream', s, a) = {}
                     /\ \A later \in MetAfter(lastEval'.relevant, i) :
                           \A a \in DepActionSetOf(later) :
                              PublishCalls(lastEval'.calls, later, a) # {}]_vars

\* C18 happens: the SMA is cached and above 150, the EMA that M1 compares
\* with is not cached and M3's target row is missing; the SMA update
\* evaluated M1, M2 and M3, and only M2, which came after M1, got its event.
C18_Witness ==
    /\ lastEval.kind = "eval"
    /\ lastEval.fault = "none"
    /\ lastEval.relevant = <<"M1", "M2", "M3">>
    /\ lastEval.calls = <<[strategyId |-> "M2", actionId |-> "e2"]>>
    /\ Len(actStream) = 1
    /\ IsSome(getCachedIndicatorEntry(cache, now, DepKeyOf["d1"]))
    /\ ~IsSome(getCachedIndicatorEntry(cache, now, DepKeyOf["d2"]))

\* C16: CROSSES_ABOVE holds exactly when a previous value exists, previous
\* <= target and current > target; CROSSES_BELOW exactly when a previous
\* value exists, previous >= target and current < target; without a previous
\* value both are false.  (9, 11, 10) is a crossing above, (10.5, 11, 10)
\* is not, (11, 9, 10) is a crossing below.
C16_Crossover ==
    cmpOut # None =>
        LET in == Get(cmpIn)
            out == Get(cmpOut)
            hasPrevious == in.previousValue # None
            previous == Get(in.previousValue)
        IN  /\ out["CROSSES_ABOVE"] =
                  (hasPrevious /\ previous <= in.target /\ in.currentValue > in.target)
            /\ out["CROSSES_BELOW"] =
                  (hasPrevious /\ previous >= in.target /\ in.currentValue < in.target)
            /\ ~hasPrevious => ~out["CROSSES_ABOVE"] /\ ~out["CROSSES_BELOW"]
            /\ (hasPrevious /\ previous = 9 * Scale /\ in.currentValue = 11 * Scale)
                  => out["CROSSES_ABOVE"]
            /\ (hasPrevious /\ previous = 10 * Scale + 50000 /\ in.currentValue = 11 * Scale)
                  => ~out["CROSSES_ABOVE"]
            /\ (hasPrevious /\ previous = 11 * Scale /\ in.currentValue = 9 * Scale)
                  => out["CROSSES_BELOW"]

\* C16 happens: previous 10.5, current 11, target 10 was evaluated: already
\* above, so no crossing, while GREATER_THAN holds.
C16_Witness ==
    /\ cmpOut # None
    /\ Get(cmpIn).previousValue = Some(10 * Scale + 50000)
    /\ Get(cmpIn).currentValue = 11 * Scale
    /\ ~Get(cmpOut)["CROSSES_ABOVE"]
    /\ Get(cmpOut)["GREATER_THAN"]

\* C17: EQUALS holds exactly when |current - target| is below the epsilon of
\* 0.0001, NOT_EQUALS exactly when EQUALS does not; 10.00005 against 10
\* is equal, 10.001 against 10 is not.
C17_EpsilonEquality ==
    cmpOut # None =>
        LET in == Get(cmpIn)
            out == Get(cmpOut)
        IN  /\ out["EQUALS"] = (Abs(in.currentValue - in.target) < Epsilon)
            /\ out["NOT_EQUALS"] = ~out["EQUALS"]
            /\ in.currentValue = 10 * Scale + 5 => out["EQUALS"]
            /\ in.currentValue = 10 * Scale + 100 => ~out["EQUALS"]

\* C17 happens: 10.00005 was compared with 10 and found equal though the two
\* differ.
C17_Witness ==
    /\ cmpOut # None
    /\ Get(cmpIn).currentValue = 10 * Scale + 5
    /\ Get(cmpOut)["EQUALS"]
    /\ ~Get(cmpOut)["NOT_EQUALS"]

\* The entry is pending and nobody is going to handle it: the instance it was
\* delivered to crashed, or gave up its batch after an xAck that failed.
Lost(id) ==
    /\ id \in DOMAIN pending
    /\ \/ consumers[pending[id]].pc = "crashed"
       \/ id \notin SeqToSet(consumers[pending[id]].batch)

\* C4: an entry that was delivered and never acknowledged, because its
\* instance crashed or the xAck failed, is eventually delivered again (or
\* acknowledged after all).
C4_Redelivered ==
    \A id \in 1..MaxMessages :
        Lost(id) ~> (id \in acked \/ (id \in DOMAIN deliveryCount /\ deliveryCount[id] >= 2))

C29_AckedOnceAfterHandoff ==
    logKind = "action" =>
        /\ lastHandled.kind = "handled" =>
              /\ lastHandled.ackCalls = 1
              /\ lastHandled.next # 0 => lastHandled.next = lastHandled.id + 1
        /\ \A id \in acked :
              (~IsEmptyPayload(logStream[id]) /\ logStream[id] \notin ParseErrorMessages)
                  => processCount[id] = 1
        /\ \A id \in DOMAIN pending :
              consumers[pending[id]].pc = "reading" => id \in acked

\* C30: whenever a call of initRedis has resolved the shared client is
\* connected, also for a call made while the connect of an earlier call was
\* in flight or after it failed, and startScheduler registers its discovery
\* task only with a connected client.
C30_ResolvedMeansConnected ==
    /\ \A c \in InitCallers :
          initCalls[c].pc = "resolved" => initCalls[c].clientAt = "connected"
    /\ discoveryTask \in {"none", "connected"}

\* C31: after a discovery tick has completed, every Condition row that is
\* linked to a block of an active strategy and has a symbol and an interval
\* has a task in the map under the key the evaluation computes for the row
\* when it reads the row's cache entry, rows that differ only in dataSource
\* included.
C31_TaskPerConditionFingerprint ==
    srcScanned # None =>
        \A i \in Get(srcScanned) :
            (IsSome(SourceConds[i].symbol) /\ IsSome(SourceConds[i].interval))
                => SourceKeyOf[i] \in DOMAIN srcJobs

\* C32: requests that differ in indicator type or in their provider
\* parameters never share a fingerprint, so a call of getTechnicalIndicator
\* answered from the cache returns the series of the indicator and period
\* it asked for, through the helpers as through the scheduler.
C32_NoForeignCacheHit ==
    (lastCall.kind = "request" /\ ~lastCall.contacted) =>
        /\ lastCall.result = Some(SeriesFor(RequestedFunction(lastCall.params),
                                            RequestedPeriod(lastCall.params)))
        /\ \A b \in IndicatorRequests :
              (\/ RequestedFunction(b) # RequestedFunction(lastCall.params)
               \/ RequestedPeriod(b) # RequestedPeriod(lastCall.params))
                  => FetchKeyOf[b] # FetchKeyOf[lastCall.params]

\* C33: the payload evaluateStrategiesForIndicator receives for an event of
\* getTechnicalIndicator names the indicator that was fetched: its
\* indicator type, symbol and interval are the request's, and its parameters
\* object, serialized by the publisher and parsed by the consumer, is
\* structurally the request's provider parameters.
C33_PayloadRoundTrip ==
    lastEval.kind = "eval" =>
        \E params \in FetchRequests :
            /\ Field(lastEval.payload, "cacheKey") = Some(JStr(FetchKeyOf[params]))
            /\ Field(lastEval.payload, "indicatorType") = Field(params, "indicatorType")
            /\ Field(lastEval.payload, "symbol") = Field(params, "symbol")
            /\ Field(lastEval.payload, "interval") = Field(params, "interval")
            /\ IsSome(Field(lastEval.payload, "parameters"))
            /\ StructEq(Get(Field(lastEval.payload, "parameters")),
                        Get(Field(params, "parameters")))

RECURSIVE ClockInstants(_)
\* The instants the clock of the fetcher's specification can show after n
\* steps: a minute later, or the expiry of an entry written at an instant.
ClockInstants(n) ==
    IF n = 0 THEN {0}
    ELSE LET before == ClockInstants(n - 1)
         IN  before \cup {t + 60 : t \in before}
                    \cup {t + TtlSeconds(Field(params, "interval")) :
                             t \in before, params \in FetchRequests}

FetchInstants == ClockInstants(MaxClockSteps)

\* The instant a timestamp string of the model stands for.
InstantOf(text) ==
    CHOOSE t \in FetchInstants : IsoTime(t) = text

C39_RootUpdateRejectedIffParentChanges ==
    (/\ lastRequest.op = "updateStrategyBlock"
     /\ IsSome(lastRequest.before)
     /\ Get(lastRequest.before).blockType = "ROOT"
     /\ Get(lastRequest.before).strategyId = lastRequest.strategyId) =>
        LET before == Get(lastRequest.before)
            body == lastRequest.body
            changesParent == body.parentId.given /\ body.parentId.value # before.parentId
        IN  /\ (lastRequest.status = 400) = changesParent
            /\ lastRequest.status = 400 => blockTable[lastRequest.blockId] = before
            /\ ~body.parentId.given =>
                  /\ lastRequest.status = 200
                  /\ blockTable[lastRequest.blockId].parentId = before.parentId

\* C40: the strategies affected by one event are evaluated independently:
\* every publishActionRequired call and every event the cycle appends names
\* an Action linked to a block of the Strategy it names, and an affected
\* strategy whose own conditions all hold gets a call for each of its
\* actions whether or not another affected strategy of the cycle has a
\* condition that is false or unavailable.
C40_StrategiesIndependent ==
    [][evalCycles' = evalCycles + 1 =>
        /\ \A i \in DOMAIN lastEval'.calls :
              lastEval'.calls[i].actionId \in ActionSetOf(lastEval'.calls[i].strategyId)
        /\ \A i \in (Len(actStream) + 1)..Len(actStream') :
              \E s \in StrategyIds :
                 /\ StreamField(actStream'[i].message, "strategyId") = <<TRaw(s)>>
                 /\ \E a \in ActionSetOf(s) :
                       StreamField(actStream'[i].message, "actionId") = <<TRaw(a)>>
        /\ \A i, j \in DOMAIN lastEval'.relevant :
              LET s1 == lastEval'.relevant[i]
                  s2 == lastEval'.relevant[j]
              IN  (/\ \E cond \in ConditionSetOf(s1) :
                         ~ConditionMet(cond, EvalConds, ConditionKeyOf, cache, now)
                   /\ \A cond \in ConditionSetOf(s2) :
                         ConditionMet(cond, EvalConds, ConditionKeyOf, cache, now))
                  => /\ \A a \in ActionSetOf(s2) : PublishCalls(lastEval'.calls, s2, a) # {}
                     /\ \A a \in ActionSetOf(s1) \ ActionSetOf(s2) :
                           \A k \in DOMAIN lastEval'.calls :
                              lastEval'.calls[k].actionId # a]_vars

\* C40 happens: the SMA update affected S1 and S2; S1, whose EMA condition
\* does not hold, got nothing and S2 got the event of its action a3.
C40_Witness ==
    /\ lastEval.kind = "eval"
    /\ lastEval.fault = "none"
    /\ lastEval.relevant = <<"S1", "S2">>
    /\ lastEval.calls = <<[strategyId |-> "S2", actionId |-> "a3"]>>
    /\ Len(actStream) >= 1
    /\ StreamField(actStream[Len(actStream)].message, "strategyId") = <<TRaw("S2")>>
    /\ StreamField(actStream[Len(actStream)].message, "actionId") = <<TRaw("a3")>>

\* C35: once every discovery tick has completed its callback, the job keys
\* of the task map are the result of the scan started last, also when the
\* callbacks of two ticks overlapped.
C35_LastStartedScanWins ==
    (tkCount >= 2 /\ tkPending = {} /\ tkApplied = 1..tkCount) =>
        DOMAIN tkJobs = tkStarted[tkCount]

\* C36: after stopScheduler has returned and startScheduler is not called
\* again, no refresh task is running and the task map is empty, whatever
\* ticks fire or finish their scan afterwards.
C36_NoTaskAfterStop ==
    tkStopped =>
        /\ tkJobs = <<>>
        /\ \A t \in DOMAIN tkTasks : tkTasks[t] # "running"

\* C37: a discovery tick whose scan fails is a no-op: the step that records
\* the failure leaves the task map and the tasks as they were and creates no
\* task; and the scheduler goes on: when one tick applied its scan and the
\* others failed, the map holds exactly the job keys of the scan applied.
C37_FailedTickNoOp ==
    /\ [][tkFailed' # tkFailed =>
              (tkJobs' = tkJobs /\ tkTasks' = tkTasks /\ tkNext' = tkNext)]_vars
    /\ [](\A t \in 1..tkCount :
              (tkPending = {} /\ tkApplied = {t} /\ tkFailed = (1..tkCount) \ {t})
                  => DOMAIN tkJobs = tkStarted[t])

\* C37: the scan of the second tick failed after the first tick had created
\* a task, which is still running.
C37_Witness ==
    /\ tkApplied = {1}
    /\ tkFailed = {2}
    /\ tkJobs # <<>>
    /\ \A k \in DOMAIN tkJobs : tkTasks[tkJobs[k]] = "running"

\* The Conditions of a strategy of the trigger fixture.
TriggerConditionsOf(s) ==
    {TriggerConds[i] : i \in {j \in DOMAIN TriggerConds :
        \E b \in DOMAIN TriggerBlocks : /\ TriggerBlocks[b].strategyId = s
                                         /\ TriggerBlocks[b].conditionId = Some(TriggerConds[j].id)}}

\* C34: for every Condition evaluated in a cycle, the current value is the
\* most recent point and the previous value the point before it of the
\* series in the triggering cache entry, the one stored under the
\* fingerprint the event carries: a strategy of the cycle has its actions
\* published exactly when each of its Conditions holds for those two values.
C34_ValuesFromTriggeringEntry ==
    trigOut # None =>
        LET entry == getCachedIndicatorEntry(cache, now, Get(trigOut).cacheKey)
            currentValue == getLatestIndicatorValue(EntryData(entry))
            previousValue == getPreviousIndicatorValue(EntryData(entry))
        IN  \A s \in Get(trigOut).relevant :
                (s \in Get(trigOut).met) =
                    (/\ IsSome(currentValue)
                     /\ \A cond \in TriggerConditionsOf(s) :
                           Compare(cond.operator, Get(currentValue), previousValue,
                                   Get(cond.targetValue)))

\* C10: an entry whose parameters text cannot be parsed, or that has no
\* fields, is never handed to the evaluation / the executor step and never
\* delivered a second time, and an xAck is issued for it.
C10_MalformedDropped ==
    /\ \A id \in DOMAIN logStream :
          Malformed(logStream[id]) => processCount[id] = 0 /\ deliveryCount[id] <= 1
    /\ (lastHandled.kind = "handled" /\ Malformed(logStream[lastHandled.id])) =>
          lastHandled.ackCalls >= 1

====
